---- MODULE Spec2Model ----
(***************************************************************************)
(* A model of lib/swampsat2.py, the SwampSat II beacon decoder: the input  *)
(* normalizer (_cleaninput, _validatehex), the byte cursor (_parsebinary), *)
(* the subsystem schemas (_cdh, _adac, _eps, _battery, _vutrx, _ants,      *)
(* _stx), the length-keyed dispatcher (_parse), the float reconstruction   *)
(* (hextofloat, hextodouble) and the log writer (parserecord, record).     *)
(*                                                                         *)
(* A Python str is a sequence of one-character strings; a token list is a  *)
(* sequence of such sequences.  A Python int is a pair [hi, lo] standing   *)
(* for hi * 2^24 + lo (0 <= lo < 2^24), because the decoder builds 32- and *)
(* 48-bit values and Python integers never overflow.  A raised exception   *)
(* is the field exc of a result ("" when none is raised).                  *)
(***************************************************************************)
EXTENDS Integers, Sequences, FiniteSets, TLC

VARIABLES
    hexstr,          \* parse(hexstr, dlim): the caller's string
    dlim,            \* parse(hexstr, dlim): the delimiter
    hexstr_cleaned,  \* _parse: the token list _cleaninput returned
    errmsg,          \* self._errmsg
    compileddata,    \* self.compileddata, an OrderedDict: a sequence of <<key, value>>
    exc,             \* the exception that escaped the call ("" when it returned)
    calls,           \* the schema decodes the call made, in order
    called,          \* TRUE once the call was made
    now,             \* what the clock reads during the call
    data,            \* _parsebinary(data, dtype, numbytes): the list, after the call
    data0,           \* the same list as it was when the call was made
    dtype,           \* _parsebinary: the type tag of the call
    numbytes,        \* _parsebinary: the numbytes argument of the call
    ret,             \* _parsebinary: [exc, val] of the call
    frames,          \* several callers: the <<hexstr, dlim>> each passes to parse
    objs,            \* several callers: _errmsg and compileddata of the objects made
    pcs,             \* several callers: where each call is
    results,         \* several callers: what each call gave its caller
    fcall,           \* hextofloat, hextodouble: [fn, a, swap] of the call
    fret,            \* hextofloat, hextodouble: [exc, val] of the call
    field,           \* one schema statement: the statement run
    rawpair,         \* one schema statement: the two token lists it was run on
    decoded,         \* one schema statement: [exc, raw, out] of the two runs
    received,        \* image mode: the frames handed over so far, in input order
    image,           \* image mode: what the reassembly gave
    logpath,         \* parserecord: the logpath argument, a sequence of pieces
    files            \* parserecord: the files of the log folder, by path

vars == <<hexstr, dlim, hexstr_cleaned, errmsg, compileddata, exc, calls, called, now,
          data, data0, dtype, numbytes, ret, frames, objs, pcs, results, fcall, fret,
          field, rawpair, decoded, received, image, logpath, files>>

parsevars == <<hexstr, dlim, hexstr_cleaned, errmsg, compileddata, exc, calls, called, now>>

cursorvars == <<data, data0, dtype, numbytes, ret>>

callvars == <<frames, objs, pcs, results>>

floatvars == <<fcall, fret>>

fieldvars == <<field, rawpair, decoded>>

imagevars == <<received, image>>

logvars == <<logpath, files>>

\* parserecord is not called: no log path, no file
NoLog == logpath = <<>> /\ files = <<>>

\* what image holds before a reassembly
NoImage == [done |-> FALSE, mode |-> 0, found |-> FALSE, stream |-> <<>>, missing |-> 0]

\* the image mode is not used
NoFrames == received = <<>> /\ image = NoImage

\* no schema statement is run by itself
NoField ==
    /\ field = [op |-> "", key |-> "", dtypes |-> <<>>, n |-> 0, outs |-> <<>>, xf |-> ""]
    /\ rawpair = <<>>
    /\ decoded = <<>>

\* no call of the other callers is under way
NoCallers == frames = <<>> /\ objs = <<>> /\ pcs = <<>> /\ results = <<>>

\* no call of hextofloat or hextodouble is made
NoFloatCall ==
    /\ fcall = [fn |-> "", a |-> [type |-> "NoneType", s |-> <<>>], swap |-> FALSE]
    /\ fret = [exc |-> "", val |-> 0]

(***************************************************************************)
(* Python str and list primitives                                          *)
(***************************************************************************)

Min(a, b) == IF a < b THEN a ELSE b

Max(a, b) == IF a > b THEN a ELSE b

\* s[a:b] of Python for 0-based a, b that may be negative or out of range
Slice(s, a, b) ==
    LET n  == Len(s)
        a1 == IF a < 0 THEN Max(a + n, 0) ELSE Min(a, n)
        b1 == IF b < 0 THEN Max(b + n, 0) ELSE Min(b, n)
    IN  IF a1 >= b1 THEN <<>> ELSE SubSeq(s, a1 + 1, b1)

\* s[a:] of Python
SliceFrom(s, a) == Slice(s, a, Len(s))

\* a loop for i = lo, ..., hi over the state st, f its body: the range is
\* halved, and the first half is evaluated before the second half starts
RECURSIVE Fold(_, _, _, _)
Fold(f(_, _), lo, hi, st) ==
    IF lo > hi THEN st
    ELSE IF lo = hi THEN f(st, lo)
    ELSE LET mid  == (lo + hi) \div 2
             left == Fold(f, lo, mid, st)
         IN  IF left = left THEN Fold(f, mid + 1, hi, left) ELSE st

\* ''.join(list of str)
Join(l) == Fold(LAMBDA st, i : st \o l[i], 1, Len(l), <<>>)

\* reversed(list)
Reversed(s) == [i \in 1..Len(s) |-> s[Len(s) + 1 - i]]

\* c * n of Python for a one-character c: '' when n <= 0
Repeat(c, n) == [i \in 1..Max(n, 0) |-> c]

UpperCase == <<"A", "B", "C", "D", "E", "F", "G", "H", "I", "J", "K", "L", "M",
               "N", "O", "P", "Q", "R", "S", "T", "U", "V", "W", "X", "Y", "Z">>

LowerCase == <<"a", "b", "c", "d", "e", "f", "g", "h", "i", "j", "k", "l", "m",
               "n", "o", "p", "q", "r", "s", "t", "u", "v", "w", "x", "y", "z">>

\* str.lower(), character by character
lower(s) ==
    [i \in 1..Len(s) |->
        IF \E k \in 1..26 : UpperCase[k] = s[i]
        THEN LowerCase[CHOOSE k \in 1..26 : UpperCase[k] = s[i]]
        ELSE s[i]]

\* the characters str.strip() removes from both ends, as far as the model's
\* alphabet has them: space, tab, newline, carriage return, form feed
Whitespace == {" ", "\t", "\n", "\r", "\f"}

\* str.strip()
strip(s) ==
    LET keep == {i \in 1..Len(s) : s[i] \notin Whitespace}
    IN  IF keep = {} THEN <<>>
        ELSE SubSeq(s, CHOOSE i \in keep : \A j \in keep : i <= j,
                       CHOOSE i \in keep : \A j \in keep : i >= j)

\* old occurs in s at 1-based position i
MatchAt(s, old, i) ==
    /\ i + Len(old) - 1 <= Len(s)
    /\ \A k \in 1..Len(old) : s[i + k - 1] = old[k]

\* str.replace(old, ''): the occurrences of old are removed left to right,
\* without overlap; an empty old leaves the string as it is
\* (skip counts the characters of the occurrence found that are still ahead)
replaceAt(s, old, st, i) ==
    IF st.skip > 0 THEN [st EXCEPT !.skip = st.skip - 1]
    ELSE IF MatchAt(s, old, i) THEN [st EXCEPT !.skip = Len(old) - 1]
    ELSE [st EXCEPT !.acc = Append(st.acc, s[i])]

replace(s, old) ==
    IF old = <<>> THEN s
    ELSE IF Len(old) = 1 THEN SelectSeq(s, LAMBDA c : c # old[1])
    ELSE Fold(LAMBDA st, i : replaceAt(s, old, st, i), 1, Len(s),
              [acc |-> <<>>, skip |-> 0]).acc

\* the sequences over S of length at most n
SeqsUpTo(S, n) == UNION {[1..k -> S] : k \in 0..n}

\* pat in s, for two str
Contains(s, pat) == \E i \in 1..(Len(s) - Len(pat) + 1) : MatchAt(s, pat, i)

(***************************************************************************)
(* Python int                                                              *)
(***************************************************************************)

Limb == 2 ^ 24

HexDigits == <<"0", "1", "2", "3", "4", "5", "6", "7", "8", "9",
               "a", "b", "c", "d", "e", "f">>

IsHexDigit(c) == \E k \in 1..16 : HexDigits[k] = c

HexVal(c) == (CHOOSE k \in 1..16 : HexDigits[k] = c) - 1

\* the int n, 0 <= n < 2^31
NumOf(n) == [hi |-> n \div Limb, lo |-> n % Limb]

\* 2 ** k
Pow2(k) == IF k >= 24 THEN [hi |-> 2 ^ (k - 24), lo |-> 0] ELSE [hi |-> 0, lo |-> 2 ^ k]

\* a >= b
NumGeq(a, b) == a.hi > b.hi \/ (a.hi = b.hi /\ a.lo >= b.lo)

\* a - b
NumSub(a, b) ==
    IF a.lo >= b.lo THEN [hi |-> a.hi - b.hi, lo |-> a.lo - b.lo]
    ELSE [hi |-> a.hi - b.hi - 1, lo |-> a.lo - b.lo + Limb]

\* a + b
NumAdd(a, b) ==
    [hi |-> a.hi + b.hi + (a.lo + b.lo) \div Limb, lo |-> (a.lo + b.lo) % Limb]

\* the int of a value that fits TLC's integers
NumToInt(a) == a.hi * Limb + a.lo

\* int(s, 16) for a str of the model's alphabet (no sign, prefix, underscore
\* or blank, which int() would accept): ValueError for '' and for a
\* character that is no hexadecimal digit
RECURSIVE HexNum(_, _, _)
HexNum(s, i, acc) ==
    IF i > Len(s) THEN acc
    ELSE LET t == acc.lo * 16 + HexVal(s[i])
         IN  HexNum(s, i + 1, [hi |-> acc.hi * 16 + t \div Limb, lo |-> t % Limb])

int_base16(s) ==
    IF s = <<>> \/ \E i \in 1..Len(s) : ~IsHexDigit(s[i])
    THEN [exc |-> "ValueError", val |-> NumOf(0)]
    ELSE [exc |-> "", val |-> HexNum(s, 1, NumOf(0))]

\* the binary digits of n > 0, most significant first
RECURSIVE BinDigits(_)
BinDigits(n) ==
    IF n = 0 THEN <<>> ELSE Append(BinDigits(n \div 2), IF n % 2 = 1 THEN "1" ELSE "0")

\* bin(num)[2:] for num >= 0
binNat(a) ==
    IF a.hi = 0 THEN (IF a.lo = 0 THEN <<"0">> ELSE BinDigits(a.lo))
    ELSE LET low == BinDigits(a.lo)
         IN  BinDigits(a.hi) \o Repeat("0", 24 - Len(low)) \o low

\* bin(num)[2:] for an int that fits TLC's integers: 'b...' when num < 0,
\* since bin(-5) is '-0b101'
bin2(n) ==
    IF n < 0 THEN <<"b">> \o BinDigits(0 - n)
    ELSE IF n = 0 THEN <<"0">> ELSE BinDigits(n)

\* int(s, 2) for a str over '0', '1', 'b': a '0b' prefix is accepted;
\* ValueError without a digit or with any other character
RECURSIVE BinNum(_, _, _)
BinNum(s, i, acc) ==
    IF i > Len(s) THEN acc
    ELSE BinNum(s, i + 1, acc * 2 + (IF s[i] = "1" THEN 1 ELSE 0))

int_base2(s) ==
    LET body == IF Len(s) >= 2 /\ s[1] = "0" /\ s[2] = "b" THEN SliceFrom(s, 2) ELSE s
    IN  IF body = <<>> \/ \E i \in 1..Len(body) : body[i] \notin {"0", "1"}
        THEN [exc |-> "ValueError", val |-> 0]
        ELSE [exc |-> "", val |-> BinNum(body, 1, 0)]

\* bin(int(s, 16))[2:] for a str of hexadecimal digits of any length: the
\* four bits of each digit, without the leading zeros ('0' for zero)
NibbleBits(c) ==
    LET v == HexVal(c)
        bit(k) == IF (v \div k) % 2 = 1 THEN "1" ELSE "0"
    IN  <<bit(8), bit(4), bit(2), bit(1)>>

stripzeros(all) ==
    IF \A i \in 1..Len(all) : all[i] # "1" THEN <<"0">>
    ELSE SubSeq(all, CHOOSE i \in 1..Len(all) :
                        all[i] = "1" /\ \A j \in 1..(i - 1) : all[j] # "1",
                Len(all))

binhex(s) == stripzeros(Join([i \in 1..Len(s) |-> NibbleBits(s[i])]))

\* str.zfill(width)
zfill(s, width) == Repeat("0", width - Len(s)) \o s

(***************************************************************************)
(* hextofloat, hextodouble                                                 *)
(***************************************************************************)

\* the body the two functions share: ebits exponent bits, the given bias,
\* total bits in all.  The result keeps sign, exponent and the mantissa bits
\* the code computes, and the value returned, which is exactly
\* sign * sig * 2^exp2.  A mantissa of up to 54 bits is modelled (h of at
\* most 8 digits for hextofloat, 16 for hextodouble).

\* int(s, 2) of up to 54 binary digits, as a wide int
wide_base2(s) ==
    [hi |-> BinNum(Slice(s, 0, Max(Len(s) - 24, 0)), 1, 0),
     lo |-> BinNum(SliceFrom(s, Max(Len(s) - 24, 0)), 1, 0)]

\* mval = 1 + the sum of 2 ** (-(i + 1)) over the '1' of the mantissa, times
\* 2^len(mantissa): a float holds it exactly
mval(mantissa) == NumAdd(Pow2(Len(mantissa)), wide_base2(mantissa))

\* n / 2 rounded to the nearest, a tie to the even one
halfeven(n) ==
    IF n.lo % 2 = 0 \/ (n.lo \div 2) % 2 = 0
    THEN [hi |-> n.hi \div 2, lo |-> n.lo \div 2 + (n.hi % 2) * (Limb \div 2)]
    ELSE NumAdd([hi |-> n.hi \div 2, lo |-> n.lo \div 2 + (n.hi % 2) * (Limb \div 2)],
                NumOf(1))

\* sign * 2 ** (exponent - bias) * mval: 2 ** k is an int for k >= 0 and a
\* float below; an int of 2^1024 or more times a float raises OverflowError;
\* a product below 2^-1022 is rounded to a multiple of 2^-1074
product(sign, exponent, mantissa, bias) ==
    IF exponent - bias >= 1024 /\ \E i \in 1..Len(mantissa) : mantissa[i] = "1"
    THEN [exc |-> "OverflowError", val |-> 0]
    ELSE [exc |-> "",
          val |-> [sign     |-> sign,
                   exponent |-> exponent,
                   mantissa |-> mantissa,
                   bias     |-> bias,
                   sig      |-> IF exponent - bias - Len(mantissa) = -1075
                                THEN halfeven(mval(mantissa)) ELSE mval(mantissa),
                   exp2     |-> IF exponent - bias - Len(mantissa) = -1075
                                THEN -1074 ELSE exponent - bias - Len(mantissa)]]

\* sign, exponent and mantissa of b = bin(i)[2:].zfill(total), and the
\* value returned
unpack(b, ebits, bias) ==
    product(IF int_base2(Slice(b, 0, 1)).val = 0 THEN 1 ELSE -1,
            int_base2(Slice(b, 1, 1 + ebits)).val,
            SliceFrom(b, 1 + ebits),
            bias)

\* the digits with their bytes reversed, if swap
swapped(d, swap) ==
    IF swap
    THEN Join(Reversed([k \in 1..((Len(d) + 1) \div 2) |-> Slice(d, 2 * (k - 1), 2 * k)]))
    ELSE d

\* a character that is no digit read as the digit 0
checked_lenient(d, swap, total, ebits, bias) ==
    IF d = <<>> THEN [exc |-> "ValueError", val |-> 0]
    ELSE unpack(zfill(binhex(swapped([i \in 1..Len(d) |->
                                        IF IsHexDigit(d[i]) THEN d[i] ELSE "0"],
                                     swap)), total), ebits, bias)

\* from the check of h[2:] on: ValueError for a character that is no digit,
\* and from int('', 16)
checked(d, swap, total, ebits, bias) ==
    IF \E i \in 1..Len(d) : ~IsHexDigit(d[i]) THEN [exc |-> "ValueError", val |-> 0]
    ELSE IF d = <<>> THEN [exc |-> "ValueError", val |-> 0]
    ELSE unpack(zfill(binhex(swapped(d, swap)), total), ebits, bias)

hexto(h, swap, total, ebits, bias) ==
    checked(SliceFrom(IF Len(h) >= 2 /\ h[1] = "0" /\ h[2] = "x" THEN h
                      ELSE <<"0", "x">> \o h, 2),
            swap, total, ebits, bias)

hextofloat(h, swap) == hexto(h, swap, 32, 8, 127)

hextodouble(h, swap) == hexto(h, swap, 64, 11, 1023)

\* a call fn(a, swap) with any Python value a = [type, s], s its characters
\* when it is a str: TypeError unless isinstance(a, str)
hexcall(fn, a, swap) ==
    IF a.type # "str" THEN [exc |-> "TypeError", val |-> 0]
    ELSE IF fn = "hextofloat" THEN hextofloat(a.s, swap)
    ELSE hextodouble(a.s, swap)

(***************************************************************************)
(* _cleaninput, _validatehex                                               *)
(***************************************************************************)

\* any(c not in validhex for c in hstr), validhex the sixteen digits and the
\* characters of dl.lower()
_validatehex(hstr, dl) ==
    LET validhex == HexDigits \o lower(dl)
    IN  \E i \in 1..Len(hstr) : \A k \in 1..Len(validhex) : validhex[k] # hstr[i]

\* the cleaned string of _cleaninput
hstr_cleaned(hstr, dl) ==
    replace(replace(replace(replace(replace(strip(lower(hstr)),
        <<" ">>), dl), <<"\t">>), <<"\r">>), <<"\n">>)

\* _cleaninput from its length check on, c the cleaned string
tokenize(c, dl) ==
    IF Len(c) = 0 THEN [tokens |-> <<>>, errmsg |-> "\t\t\tString is empty"]
    ELSE IF _validatehex(c, dl)
    THEN [tokens |-> <<>>, errmsg |-> "\t\t\tInvalid character found in string"]
    ELSE [tokens |-> [k \in 1..((Len(c) + 1) \div 2) |-> Slice(c, 2 * (k - 1), 2 * k)],
          errmsg |-> ""]

\* _cleaninput: [tokens, errmsg]
_cleaninput(hstr, dl) == tokenize(hstr_cleaned(hstr, dl), dl)

(***************************************************************************)
(* _parsebinary                                                            *)
(***************************************************************************)

DTypes == {"uint8", "uint16", "uint32", "uint", "int8", "int16", "int32", "int",
           "bool8", "bool16", "bool32", "bool", "single", "double"}

\* dtype.lower() on a type tag; the tags are whole strings here, and these
\* are the spellings with capitals the model passes
lowertag(t) ==
    CASE t = "UINT8" -> "uint8" [] t = "Int16" -> "int16" [] t = "BOOL" -> "bool"
      [] t = "Single" -> "single" [] OTHER -> t

\* the number of tokens the branch of a tag reads and pops
Width(dt, n) ==
    CASE dt \in {"uint8", "int8", "bool8"}   -> 1
      [] dt \in {"uint16", "int16", "bool16"} -> 2
      [] dt \in {"uint32", "int32", "bool32", "single"} -> 4
      [] dt = "double" -> 8
      [] OTHER -> n

\* the exponent of the sign test of a signed branch: num >= 2 ** (bits - 1)
\* and num -= 2 ** bits
SignBits(dt, n) ==
    CASE dt = "int8" -> 8 [] dt = "int16" -> 16 [] dt = "int32" -> 32 [] OTHER -> n * 8

\* Signed with the sign test num > 2 ** (bits - 1) in place of >=
Signed_strict(num, bits) ==
    IF NumGeq(num, Pow2(bits - 1)) /\ num # Pow2(bits - 1)
    THEN NumSub(num, Pow2(bits)) ELSE num

\* the signed branches, after int(hexnum, 16)
Signed(num, bits) ==
    IF NumGeq(num, Pow2(bits - 1)) THEN NumSub(num, Pow2(bits)) ELSE num

\* the bool branches, after int(hexnum, 16): the bits of b = bin(num)[2:],
\* last first, after '0' * nleadingzeros with
\* nleadingzeros = numbytes * 8 + 2 - len(bin(num))
bits(b, n) ==
    [i \in 1..(Max(n * 8 + 2 - (Len(b) + 2), 0) + Len(b)) |->
        IF i <= Len(b) /\ b[Len(b) + 1 - i] = "1" THEN 1 ELSE 0]

BitList(num, n) == bits(binNat(num), n)

\* readhex without reversed(): the tokens are joined in list order
readhex_bigendian(d, w) == Join(Slice(d, 0, Max(w, 0)))

\* hexnum of a branch: ''.join([data[i] for i in reversed(range(w))])
readhex(d, w) == Join(Reversed(Slice(d, 0, Max(w, 0))))

\* popped with data.pop() in place of data.pop(i): the last w tokens go
popped_back(d, w) == Slice(d, 0, Len(d) - Max(w, 0))

\* the list after [data.pop(i) for i in reversed(range(w))]
popped(d, w) == SliceFrom(d, Max(w, 0))

\* _parsebinary(data, dtype, numbytes): [exc, val, data], data the list as
\* the call leaves it.  data[i] raises IndexError before anything is popped;
\* int() and hextofloat raise ValueError after the tokens were popped.

\* the return of a branch with int(hexnum, 16), num what int() gave
numeric(dt, n, num, rest) ==
    IF num.exc # "" THEN [exc |-> num.exc, val |-> "None", data |-> rest]
    ELSE IF dt \in {"uint8", "uint16", "uint32", "uint"}
    THEN [exc |-> "", val |-> num.val, data |-> rest]
    ELSE IF dt \in {"int8", "int16", "int32", "int"}
    THEN [exc |-> "", val |-> Signed(num.val, SignBits(dt, n)), data |-> rest]
    ELSE [exc |-> "", val |-> BitList(num.val, n), data |-> rest]

\* the return of the single and double branches
floating(f, rest) == [exc |-> f.exc, val |-> f.val, data |-> rest]

\* a branch after hexnum was read and its tokens were popped
convert(dt, n, hexnum, rest) ==
    IF dt = "single" THEN floating(hextofloat(hexnum, FALSE), rest)
    ELSE IF dt = "double" THEN floating(hextodouble(hexnum, FALSE), rest)
    ELSE numeric(dt, n, int_base16(hexnum), rest)

\* a read that takes the tokens that are left when fewer than w are there
branch_partial(d, dt, n, w) ==
    IF dt \notin DTypes THEN [exc |-> "", val |-> "None", data |-> d]
    ELSE convert(dt, n, readhex(d, Min(w, Len(d))), popped(d, Min(w, Len(d))))

\* the branch of the tag dt, which reads w tokens
branch(d, dt, n, w) ==
    IF dt \notin DTypes THEN [exc |-> "", val |-> "None", data |-> d]
    ELSE IF w > Len(d) THEN [exc |-> "IndexError", val |-> "None", data |-> d]
    ELSE convert(dt, n, readhex(d, w), popped(d, w))

_parsebinary(d, dtype0, n) == branch(d, lowertag(dtype0), n, Width(lowertag(dtype0), n))

(***************************************************************************)
(* The subsystem schemas.  A schema function is a straight line of          *)
(* statements on hexarray and ordict; each statement is one step here, in   *)
(* the order of the source:                                                 *)
(*   F(key, dtype, xf)     ordict[key] = xf(_parsebinary(hexarray, dtype))  *)
(*   F2(key, d1, d2, xf)   the same with two reads, left one first          *)
(*   Pad(n)                hexarray.pop(0), n times                         *)
(*   B(n, outs)            flags = _parsebinary(hexarray, 'bool', n), then  *)
(*                         ordict[key] = flags[i] for each <<key, i>>       *)
(*   R(dtype, outs)        reg = _parsebinary(hexarray, dtype), then        *)
(*                         ordict[key] = getkbits8(reg, k, p) for each      *)
(*                         <<key, k, p>>                                    *)
(*   K(key, dtype, k, p, xf)                                                *)
(*                         ordict[key] = xf(getkbits8(_parsebinary(...)))   *)
(* A decoded value is [raw, xf]: what was read, and the arithmetic the      *)
(* source applies to it, as written there with x for the value read.        *)
(***************************************************************************)

F(key, dt, xf) == [op |-> "F", key |-> key, dtypes |-> <<dt>>, n |-> 1, outs |-> <<>>, xf |-> xf]

F2(key, d1, d2, xf) ==
    [op |-> "F", key |-> key, dtypes |-> <<d1, d2>>, n |-> 1, outs |-> <<>>, xf |-> xf]

Pad(n) == [op |-> "Pad", key |-> "", dtypes |-> <<>>, n |-> n, outs |-> <<>>, xf |-> ""]

B(n, outs) == [op |-> "B", key |-> "", dtypes |-> <<"bool">>, n |-> n, outs |-> outs, xf |-> "x"]

R(dt, outs) == [op |-> "R", key |-> "", dtypes |-> <<dt>>, n |-> 1, outs |-> outs, xf |-> "x"]

K(key, dt, k, p, xf) ==
    [op |-> "R", key |-> "", dtypes |-> <<dt>>, n |-> 1, outs |-> <<<<key, k, p>>>>, xf |-> xf]

cdh_fields ==
    <<
    F("cdh_deployment_isis", "uint8", "x"),
    F("cdh_deployment_solarpanel", "uint8", "x"),
    F("cdh_deployment_magnetometer", "uint8", "x"),
    F("cdh_deployment_payload", "uint8", "x"),
    F("cdh_deployment_magnetometer_deployattempts", "uint8", "x"),
    Pad(1),
    F("cdh_bootcounter", "uint16", "x"),
    F("cdh_programduration", "uint32", "x"),
    F("cdh_deployment_satellite", "uint8", "x"),
    F("cdh_currentmode", "uint8", "x"),
    F("cdh_temperature_obc", "uint32", "x / 100000000"),
    F("cdh_temperature_motor", "uint32", "x / 100000000"),
    F("cdh_temperature_vlf", "uint32", "x / 100000000"),
    Pad(2),
    F("cdh_usage_cpu", "single", "x * 100"),
    F("cdh_usage_memory", "single", "x / 1024 / 1024"),
    F("cdh_usage_camera", "uint32", "x"),
    F("cdh_usage_science", "uint32", "x"),
    F("cdh_batterythreshold_safe", "single", "x"),
    F("cdh_batterythreshold_low", "single", "x"),
    F("cdh_batterythreshold_critical", "single", "x"),
    F("cdh_beacon_state", "uint8", "x"),
    F("cdh_downlink_status", "uint8", "x"),
    F("cdh_downlink_frequency", "uint16", "x"),
    F("cdh_beacon_frequency_tx", "uint16", "x"),
    F("cdh_beacon_frequency_rx", "uint16", "x"),
    F("cdh_beacon_lastuplinktime", "uint32", "x"),
    F("cdh_downlink_scienceradio", "uint8", "x"),
    F("cdh_downlink_imageradio", "uint8", "x"),
    F("cdh_beacon_speed", "uint16", "x"),
    F("cdh_downlink_vutrxpower", "uint8", "x"),
    F("cdh_downlink_stxpower", "uint8", "x"),
    F("cdh_scienceready", "uint8", "x"),
    F("cdh_detumble_memsmultiplier", "uint8", "x"),
    F("cdh_detumble_detumblestate", "uint8", "x"),
    F("cdh_detumble_angularestimator", "uint8", "x"),
    F("cdh_detumble_controlmode", "uint8", "x"),
    Pad(1),
    F("cdh_detumble_angularthreshold_high_x", "single", "x"),
    F("cdh_detumble_angularthreshold_high_y", "single", "x"),
    F("cdh_detumble_angularthreshold_high_z", "single", "x"),
    F("cdh_detumble_angularthreshold_low_x", "single", "x"),
    F("cdh_detumble_angularthreshold_low_y", "single", "x"),
    F("cdh_detumble_angularthreshold_low_z", "single", "x"),
    F("cdh_detumble_flag_tle", "uint8", "x"),
    F("cdh_detumble_flag_ymomentum", "uint8", "x"),
    F("cdh_detumble_flag_ywheel", "uint8", "x"),
    Pad(1),
    F("cdh_detumble_flag_previouscontrolonset", "uint32", "x")
    >>

adac_fields ==
    <<
    B(1, <<
          <<"adac_bootstatus_newselection", 0>>,
          <<"adac_bootstatus_bootsuccess", 1>>,
          <<"adac_bootstatus_failedbootattempt_1", 2>>,
          <<"adac_bootstatus_failedbootattempt_2", 3>>,
          <<"adac_bootstatus_failedbootattempt_3", 4>>>>),
    F("adac_bootcounter", "uint16", "x"),
    F("adac_secondssinceboot", "uint16", "x"),
    F("adac_latchup_sram_1", "uint16", "x"),
    F("adac_latchup_sram_2", "uint16", "x"),
    F("adac_error_edac_single", "uint16", "x"),
    F("adac_error_edac_double", "uint16", "x"),
    F("adac_error_edac_multiple", "uint16", "x"),
    B(6, <<
          <<"adac_currentstate_mode_attitudeestimation", 0>>,
          <<"adac_currentstate_mode_control", 1>>,
          <<"adac_currentstate_mode_adcsrun", 2>>,
          <<"adac_currentstate_enable_cubecontrol_signal", 3>>,
          <<"adac_currentstate_enable_cubecontrol_motor", 4>>,
          <<"adac_currentstate_enable_cubesense", 5>>,
          <<"adac_currentstate_enable_cubewheel_1", 6>>,
          <<"adac_currentstate_enable_cubewheel_2", 7>>,
          <<"adac_currentstate_enable_cubewheel_3", 8>>,
          <<"adac_currentstate_enable_cubestar", 9>>,
          <<"adac_currentstate_enable_gpsreceiver", 10>>,
          <<"adac_currentstate_enable_gpslnapower", 11>>,
          <<"adac_currentstate_enable_motordriver", 12>>,
          <<"adac_currentstate_sunabovehorizon", 13>>,
          <<"adac_currentstate_error_cubesense_communication", 14>>,
          <<"adac_currentstate_error_cubecontrol_signalcommunications", 15>>,
          <<"adac_currentstate_error_cubecontrol_motorcommunication", 16>>,
          <<"adac_currentstate_error_cubewheel_communication_1", 17>>,
          <<"adac_currentstate_error_cubewheel_communication_2", 18>>,
          <<"adac_currentstate_error_cubewheel_communication_3", 19>>,
          <<"adac_currentstate_error_cubestar_communication", 20>>,
          <<"adac_currentstate_error_magnetometer_range", 21>>,
          <<"adac_currentstate_error_sunsensor_overcurrent", 22>>,
          <<"adac_currentstate_error_sunsensor_busy", 23>>,
          <<"adac_currentstate_error_sunsensor_detection", 24>>,
          <<"adac_currentstate_error_sunsensor_range", 25>>,
          <<"adac_currentstate_error_nadirsensor_overcurrent", 26>>,
          <<"adac_currentstate_error_nadirsensor_busy", 27>>,
          <<"adac_currentstate_error_nadirsensor_detection", 28>>,
          <<"adac_currentstate_error_nadirsensor_range", 29>>,
          <<"adac_currentstate_error_ratesensor_range", 30>>,
          <<"adac_currentstate_error_wheelspeed_range", 31>>,
          <<"adac_currentstate_error_coarsesunsensor", 32>>,
          <<"adac_currentstate_error_startracker_match", 33>>,
          <<"adac_currentstate_error_startracker_overcurrent", 34>>,
          <<"adac_currentstate_invalid_orbitparameters", 35>>,
          <<"adac_currentstate_invalid_configuration", 36>>,
          <<"adac_currentstate_invalid_controlmodechange", 37>>,
          <<"adac_currentstate_invalid_estimatorchange", 38>>,
          <<"adac_currentstate_error_magneticfield_modelmeasurementdisagree", 39>>,
          <<"adac_currentstate_error_noderecovery", 40>>>>),
    F("adac_estimated_roll", "int16", "x * 0.01"),
    F("adac_estimated_pitch", "int16", "x * 0.01"),
    F("adac_estimated_yaw", "int16", "x * 0.01"),
    F("adac_estimated_angularrate_x", "int16", "x * 0.01"),
    F("adac_estimated_angularrate_y", "int16", "x * 0.01"),
    F("adac_estimated_angularrate_z", "int16", "x * 0.01"),
    F("adac_estimated_position_x", "int16", "x * 0.25"),
    F("adac_estimated_position_y", "int16", "x * 0.25"),
    F("adac_estimated_position_z", "int16", "x * 0.25"),
    F("adac_estimated_velocity_x", "int16", "x * 0.25"),
    F("adac_estimated_velocity_y", "int16", "x * 0.25"),
    F("adac_estimated_velocity_z", "int16", "x * 0.25"),
    F("adac_estimated_magneticfield_x", "int16", "x * 0.01"),
    F("adac_estimated_magneticfield_y", "int16", "x * 0.01"),
    F("adac_estimated_magneticfield_z", "int16", "x * 0.01"),
    F("adac_estimated_sunvector_x", "int16", "x * 0.0001"),
    F("adac_estimated_sunvector_y", "int16", "x * 0.0001"),
    F("adac_estimated_sunvector_z", "int16", "x * 0.0001"),
    F("adac_measured_angularrate_x", "int16", "x * 0.01"),
    F("adac_measured_angularrate_y", "int16", "x * 0.01"),
    F("adac_measured_angularrate_z", "int16", "x * 0.01"),
    F("adac_measured_wheel_x", "int16", "x"),
    F("adac_measured_wheel_y", "int16", "x"),
    F("adac_measured_wheel_z", "int16", "x"),
    F("adac_magnetorquer_commands_x", "int16", "x * 10"),
    F("adac_magnetorquer_commands_y", "int16", "x * 10"),
    F("adac_magnetorquer_commands_z", "int16", "x * 10"),
    F("adac_ywheel_command", "int16", "x"),
    F("adac_raw_sunsensor_xpos", "uint8", "x"),
    F("adac_raw_sunsensor_ypos", "uint8", "x"),
    F("adac_raw_sunsensor_zpos", "uint8", "x"),
    F("adac_raw_sunsensor_xneg", "uint8", "x"),
    F("adac_raw_sunsensor_yneg", "uint8", "x"),
    F("adac_raw_sunsensor_zneg", "uint8", "x"),
    F("adac_raw_magnetometer_x", "int16", "x"),
    F("adac_raw_magnetometer_y", "int16", "x"),
    F("adac_raw_magnetometer_z", "int16", "x"),
    F("adac_current_3v3", "uint16", "x * 0.48828125"),
    F("adac_current_5v", "uint16", "x * 0.48828125"),
    F("adac_current_vbat", "uint16", "x * 0.48828125"),
    F("adac_current_ywheel", "uint16", "x * 0.01"),
    F("adac_temperature_mcu", "int16", "x * 1"),
    F("adac_temperature_magnetometer", "int16", "x * 0.1"),
    F("adac_temperature_ratesensor_x", "int16", "x * 1"),
    F("adac_temperature_ratesensor_y", "int16", "x * 1"),
    F("adac_temperature_ratesensor_z", "int16", "x * 1"),
    F("adac_gpsstatus_solutionstatus", "uint8", "x"),
    F("adac_gpsstatus_trackedsatellites", "uint8", "x"),
    F("adac_gpsstatus_usedsatellites", "uint8", "x"),
    F("adac_gpsstatus_xyzlofcounter", "uint8", "x"),
    F("adac_gpsstatus_rangelogcounter", "uint8", "x"),
    F("adac_gpsstatus_responsemessage", "uint8", "x"),
    F2("adac_gps_time", "uint32", "uint16", "x1 / 1000 + 315964800 + (x2 + 2048) * 7 * 24 * 60 * 60"),
    F("adac_gps_position_x", "int32", "x * 0.001"),
    F("adac_gps_velocity_x", "int16", "x * 0.001"),
    F("adac_gps_position_y", "int32", "x * 0.001"),
    F("adac_gps_velocity_y", "int16", "x * 0.001"),
    F("adac_gps_position_z", "int32", "x * 0.001"),
    F("adac_gps_velocity_z", "int16", "x * 0.001")
    >>

eps_fields ==
    <<
    F("eps_output_current_bcr", "uint16", "x * 14.662757"),
    F("eps_output_voltage_bcr", "uint16", "x * 0.008993157"),
    F("eps_output_current_12v", "uint16", "x * 0.00207"),
    F("eps_output_voltage_12v", "uint16", "x * 0.01349"),
    F("eps_output_current_bat", "uint16", "x * 0.005237"),
    F("eps_output_voltage_bat", "uint16", "x * 0.008978"),
    F("eps_output_current_5v", "uint16", "x * 0.005237"),
    F("eps_output_voltage_5v", "uint16", "x * 0.005865"),
    F("eps_output_current_3v3", "uint16", "x * 0.005237"),
    F("eps_output_voltage_3v3", "uint16", "x * 0.004311"),
    F("eps_temperature_motherboard", "uint16", "x * 0.372434 - 273.15"),
    F("eps_temperature_daughterboard", "uint16", "x * 0.372434 - 273.15"),
    F("eps_currentdraw_3v3", "uint16", "x * 0.001327547"),
    F("eps_currentdraw_5v", "uint16", "x * 0.001327547"),
    F("eps_switchbus_voltage_motor", "uint16", "x * 0.01349"),
    F("eps_switchbus_current_motor", "uint16", "x * 0.001328"),
    F("eps_switchbus_voltage_hstx", "uint16", "x * 0.008993"),
    F("eps_switchbus_current_hstx", "uint16", "x * 0.006239"),
    F("eps_switchbus_voltage_camera", "uint16", "x * 0.005865"),
    F("eps_switchbus_current_camera", "uint16", "x * 0.001328"),
    F("eps_switchbus_voltage_adac5", "uint16", "x * 0.005865"),
    F("eps_switchbus_current_adac5", "uint16", "x * 0.001328"),
    F("eps_switchbus_voltage_vlf", "uint16", "x * 0.005865"),
    F("eps_switchbus_current_vlf", "uint16", "x * 0.001328"),
    F("eps_switchbus_voltage_ants", "uint16", "x * 0.004311"),
    F("eps_switchbus_current_ants", "uint16", "x * 0.001328"),
    F("eps_switchbus_voltage_adac3", "uint16", "x * 0.004311"),
    F("eps_switchbus_current_adac3", "uint16", "x * 0.001328"),
    F("eps_switchbus_voltage_gps", "uint16", "x * 0.004311"),
    F("eps_switchbus_current_gps", "uint16", "x * 0.001328"),
    F("eps_bcr1_temperature_a", "uint16", "x * 0.4963 - 273.15"),
    F("eps_bcr1_temperature_b", "uint16", "x * 0.4963 - 273.15"),
    F("eps_bcr1_voltage", "uint16", "x * 0.0322581"),
    F("eps_bcr1_current", "uint16", "x * 0.0009775"),
    F("eps_bcr2_temperature_a", "uint16", "x * 0.4963 - 273.15"),
    F("eps_bcr2_temperature_b", "uint16", "x * 0.4963 - 273.15"),
    F("eps_bcr2_voltage", "uint16", "x * 0.0322581"),
    F("eps_bcr2_current_a", "uint16", "x * 0.0009775"),
    F("eps_bcr2_current_b", "uint16", "x * 0.0009775"),
    F("eps_bcr3_temperature_a", "uint16", "x * 0.4963 - 273.15"),
    F("eps_bcr3_temperature_b", "uint16", "x * 0.4963 - 273.15"),
    F("eps_bcr3_voltage", "uint16", "x * 0.0099706"),
    F("eps_bcr3_current_a", "uint16", "x * 0.0009775"),
    F("eps_bcr3_current_b", "uint16", "x * 0.0009775"),
    F("eps_bcr4_voltage", "uint16", "x * 0.0322581"),
    F("eps_bcr4_current_a", "uint16", "x * 0.0009775"),
    F("eps_bcr4_current_b", "uint16", "x * 0.0009775"),
    F("eps_bcr6_voltage", "uint16", "x * 0.0322581"),
    F("eps_bcr6_current_a", "uint16", "x * 0.0009775"),
    F("eps_bcr6_current_b", "uint16", "x * 0.0009775"),
    B(2, <<
          <<"eps_pdmstate_vlf_12v", 1>>,
          <<"eps_pdmstate_stx_bat", 3>>,
          <<"eps_pdmstate_camera", 5>>,
          <<"eps_pdmstate_adac_5v", 6>>,
          <<"eps_pdmstate_vlf_5v", 7>>,
          <<"eps_pdmstate_ants", 8>>,
          <<"eps_pdmstate_adac_3v3", 9>>,
          <<"eps_pdmstate_gps_3v3", 10>>>>),
    F("eps_reset_brownout_motherboard", "uint16", "x"),
    F("eps_reset_brownout_daughterboard", "uint16", "x"),
    F("eps_reset_software_motherboard", "uint16", "x"),
    F("eps_reset_software_daughterboard", "uint16", "x"),
    F("eps_reset_manual_motherboard", "uint16", "x"),
    F("eps_reset_manual_daughterboard", "uint16", "x"),
    F("eps_reset_watchdog", "uint16", "x")
    >>

battery_fields ==
    <<
    F("battery_voltage", "uint16", "x * 0.008993"),
    F("battery_current", "uint16", "x * 14.662757 / 1000"),
    F("battery_temperature_motherboard", "uint16", "x * 0.372434 - 273.15"),
    F("battery_temperature_daughterboard_1", "uint16", "x * 0.3976 - 238.57"),
    F("battery_temperature_daughterboard_2", "uint16", "x * 0.3976 - 238.57"),
    F("battery_temperature_daughterboard_3", "uint16", "x * 0.3976 - 238.57"),
    F("battery_temperature_daughterboard_4", "uint16", "x * 0.3976 - 238.57"),
    B(1, <<
          <<"battery_heaterstatus_1", 0>>,
          <<"battery_heaterstatus_2", 1>>,
          <<"battery_heaterstatus_3", 2>>,
          <<"battery_heaterstatus_4", 3>>>>)
    >>

vutrx_fields ==
    <<
    F("vutrx_rx_failedpackage", "uint8", "x"),
    F("vutrx_rx_crcfailedpackage", "uint16", "x"),
    F("vutrx_rx_packagecounter", "uint16", "x"),
    R("uint8", <<
          <<"vutrx_rx_frequentlock", 1, 0>>,
          <<"vutrx_tx_frequentlock", 1, 1>>>>),
    F("vutrx_rssi", "uint16", "x * 3 / 4096"),
    F("vutrx_smps_temperature", "int8", "x"),
    F("vutrx_poweramplifier_temperature", "int8", "x"),
    F("vutrx_poweramplifier_power", "uint8", "x"),
    F("vutrx_frequencyoffset_tx", "uint16", "x"),
    F("vutrx_frequencyoffset_rx", "uint16", "x"),
    R("uint8", <<
          <<"vutrx_dtmf_tone", 4, 0>>,
          <<"vutrx_dtmf_counter", 4, 4>>>>),
    F("vutrx_current_3v3", "int16", "x * 3e-6"),
    F("vutrx_current_5v", "int16", "x * 62e-6"),
    F("vutrx_voltage_3v3", "int16", "x * 4e-3"),
    F("vutrx_voltage_5v", "int16", "x * 4e-3"),
    F("vutrx_poweramplifier_forwardpower", "uint16", "x * 3 / 4096"),
    F("vutrx_poweramplifier_reversepower", "uint16", "x * 3 / 4096")
    >>

ants_fields ==
    <<
    F("ants_temperature", "uint16", "x * 3.3 / 1023"),
    B(2, <<
          <<"ants_status_armed", 0>>,
          <<"ants_status_deploymentactive_4", 1>>,
          <<"ants_status_stopcriteria_4", 2>>,
          <<"ants_status_deploymentflag_4", 3>>,
          <<"ants_status_independentburn", 4>>,
          <<"ants_status_deploymentactive_3", 5>>,
          <<"ants_status_stopcriteria_3", 6>>,
          <<"ants_status_deploymentflag_3", 7>>,
          <<"ants_status_ignoreswitches", 8>>,
          <<"ants_status_deploymentactive_2", 9>>,
          <<"ants_status_stopcriteria_2", 10>>,
          <<"ants_status_deploymentflag_2", 11>>,
          <<"ants_status_deploymentactive_1", 13>>,
          <<"ants_status_stopcriteria_1", 14>>,
          <<"ants_status_deploymentflag_1", 15>>>>)
    >>

stx_fields ==
    <<
    F("stx_voltage_battery", "uint16", "x * 4e-3"),
    F("stx_current_battery", "uint16", "x * 40e-6"),
    F("stx_voltage_poweramplifier", "uint16", "x * 4e-3"),
    F("stx_current_poweramplifier", "uint16", "x * 40e-6"),
    K("stx_temperature_top", "int16", 12, 4, "x * 0.0625"),
    K("stx_temperature_bottom", "int16", 12, 4, "x * 0.0625"),
    F("stx_temperature_poweramplifier", "uint8", "((x * 3 / 4096) - 0.5) * 100"),
    F("stx_synth_offset", "uint8", "x * 0.5 + 2400"),
    F("stx_buffer_overrun", "uint16", "x"),
    F("stx_buffer_underrun", "uint16", "x"),
    B(1, <<
          <<"stx_poweramplifier_status_frequencylock", 0>>,
          <<"stx_poweramplifier_status_powergood", 1>>>>),
    F("stx_rf_poweroutput", "uint16", "x * 3 * 28 / 4096 / 18")
    >>

\* getkbits8(num, k, p), the helper _vutrx and _stx each define
getkbits8(num, k, p) ==
    LET binary0 == bin2(num)
        binary  == Repeat("0", 8 - Len(binary0)) \o binary0
        end     == 8 - p - 1
        start   == end - k + 1
    IN  int_base2(Slice(binary, start, end + 1))

\* ordict[key] = value
odset(od, key, value) ==
    IF \E i \in 1..Len(od) : od[i][1] = key
    THEN [i \in 1..Len(od) |-> IF od[i][1] = key THEN <<key, value>> ELSE od[i]]
    ELSE Append(od, <<key, value>>)

\* OrderedDict.update(other)
update(od, other) ==
    Fold(LAMBDA st, i : odset(st, other[i][1], other[i][2]), 1, Len(other), od)

\* the keys of an OrderedDict, in order
Keys(od) == [i \in 1..Len(od) |-> od[i][1]]

\* od[key]
Get(od, key) == od[CHOOSE i \in 1..Len(od) : od[i][1] = key][2]

Has(od, key) == \E i \in 1..Len(od) : od[i][1] = key

\* ordict[key] = flags[i] for the <<key, i>> of outs, up to the first i that
\* is out of range (IndexError)
SetBit(st, out, flags) ==
    IF st.exc # "" THEN st
    ELSE IF out[2] >= Len(flags) THEN [st EXCEPT !.exc = "IndexError"]
    ELSE [st EXCEPT !.ordict = odset(st.ordict, out[1], [raw |-> flags[out[2] + 1], xf |-> "x"])]

SetBits(od, outs, flags) ==
    Fold(LAMBDA st, j : SetBit(st, outs[j], flags), 1, Len(outs), [exc |-> "", ordict |-> od])

\* ordict[key] = xf(getkbits8(reg, k, p)) for the <<key, k, p>> of outs, up
\* to the first getkbits8 that raises
PutKBit(st, out, g, xf) ==
    IF g.exc # "" THEN [st EXCEPT !.exc = g.exc]
    ELSE [st EXCEPT !.ordict = odset(st.ordict, out[1], [raw |-> g.val, xf |-> xf])]

SetKBit(st, out, reg, xf) ==
    IF st.exc # "" THEN st ELSE PutKBit(st, out, getkbits8(reg, out[2], out[3]), xf)

SetKBits(od, outs, reg, xf) ==
    Fold(LAMBDA st, j : SetKBit(st, outs[j], reg, xf), 1, Len(outs),
         [exc |-> "", ordict |-> od])

\* a statement after its register was read as r1 and split into b
WithBits(r1, b) == [exc |-> b.exc, ordict |-> b.ordict, data |-> r1.data]

\* a statement of two reads after the second, r2
Second(st, s, r1, r2) ==
    IF r2.exc # "" THEN [exc |-> r2.exc, ordict |-> s.ordict, data |-> r2.data]
    ELSE [exc |-> "", data |-> r2.data,
          ordict |-> odset(s.ordict, st.key, [raw |-> <<r1.val, r2.val>>, xf |-> st.xf])]

\* a statement after its first read, r1
First(st, s, r1) ==
    IF r1.exc # "" THEN [exc |-> r1.exc, ordict |-> s.ordict, data |-> r1.data]
    ELSE IF st.op = "B" THEN WithBits(r1, SetBits(s.ordict, st.outs, r1.val))
    ELSE IF st.op = "R"
    THEN WithBits(r1, SetKBits(s.ordict, st.outs, NumToInt(r1.val), st.xf))
    ELSE IF Len(st.dtypes) = 1
    THEN [exc |-> "", data |-> r1.data,
          ordict |-> odset(s.ordict, st.key, [raw |-> r1.val, xf |-> st.xf])]
    ELSE Second(st, s, r1, _parsebinary(r1.data, st.dtypes[2], st.n))

\* one statement of a schema function on [exc, ordict, data]; nothing runs
\* after an exception
Step(st, s) ==
    IF s.exc # "" THEN s
    ELSE IF st.op = "Pad"
    THEN IF Len(s.data) < st.n
         THEN [exc |-> "IndexError", ordict |-> s.ordict, data |-> <<>>]
         ELSE [exc |-> "", ordict |-> s.ordict, data |-> SliceFrom(s.data, st.n)]
    ELSE First(st, s, _parsebinary(s.data, st.dtypes[1], st.n))

\* decode with the exception of a statement caught and dropped: what was
\* decoded up to it is returned
decode_swallow(fields, hexarray) ==
    [Fold(LAMBDA s, j : Step(fields[j], s), 1, Len(fields),
          [exc |-> "", ordict |-> <<>>, data |-> hexarray]) EXCEPT !.exc = ""]

\* a schema function on its list: [exc, ordict, data], data what is left of
\* the list when the function ends
decode(fields, hexarray) ==
    Fold(LAMBDA s, j : Step(fields[j], s), 1, Len(fields),
         [exc |-> "", ordict |-> <<>>, data |-> hexarray])

_cdh(hexarray) == decode(cdh_fields, hexarray)

_adac(hexarray) == decode(adac_fields, hexarray)

_eps(hexarray) == decode(eps_fields, hexarray)

_battery(hexarray) == decode(battery_fields, hexarray)

_vutrx(hexarray) == decode(vutrx_fields, hexarray)

_ants(hexarray) == decode(ants_fields, hexarray)

_stx(hexarray) == decode(stx_fields, hexarray)

(***************************************************************************)
(* _parse, the dispatcher                                                  *)
(***************************************************************************)

tok(a, b) == <<a, b>>

\* the expected packet lengths
packetlens == [adac |-> 137, cdh |-> 112, eps |-> 116, battery |-> 15,
               vutrx |-> 28, ants |-> 4, stx |-> 22]

\* the tokens of the acknowledgement, which _parse joins into one str
marker ==
    Join(<<
      tok("4", "7"), tok("6", "1"), tok("7", "4"), tok("6", "f"), tok("7", "2"), tok("2", "0"), tok("4", "e"), tok("6", "1"),
      tok("7", "4"), tok("6", "9"), tok("6", "f"), tok("6", "e"), tok("2", "0"), tok("4", "9"), tok("7", "3"), tok("2", "0"),
      tok("4", "5"), tok("7", "6"), tok("6", "5"), tok("7", "2"), tok("7", "9"), tok("7", "7"), tok("6", "8"), tok("6", "5"),
      tok("7", "2"), tok("6", "5"), tok("2", "1"), tok("2", "0"), tok("4", "6"), tok("7", "2"), tok("6", "f"), tok("6", "d"),
      tok("2", "0"), tok("5", "3"), tok("7", "7"), tok("6", "1"), tok("6", "d"), tok("7", "0"), tok("5", "3"), tok("6", "1"),
      tok("7", "4"), tok("2", "0"), tok("4", "9"), tok("4", "9")
    >>)

greeting == "Gator Nation Is Everywhere! From SwampSat II"

lengthmsg ==
    "\t\t\tLength of hex string must be equal to one of the following lengths: 112, 249, 163, 185"

\* a schema function by its name
schema(name, hexarray) ==
    CASE name = "cdh" -> _cdh(hexarray)
      [] name = "adac" -> _adac(hexarray)
      [] name = "eps" -> _eps(hexarray)
      [] name = "battery" -> _battery(hexarray)
      [] name = "vutrx" -> _vutrx(hexarray)
      [] name = "ants" -> _ants(hexarray)
      [] name = "stx" -> _stx(hexarray)

\* the branch of _parse a length selects, by the message type it writes
\* (-1 for the else branch)
msgtypeof(length) ==
    CASE length = 112 -> 1
      [] length = 249 -> 2
      [] length = 163 -> 3
      [] length = 185 -> 4
      [] OTHER -> -1

\* what a branch does with a list of the given length: the message number
\* and total it writes, and the slices hexstr_cleaned[a:b] with the schema
\* function each is handed to, in the order of the calls
layout(msgtype, length) ==
    LET pl == packetlens
        e1 == pl.eps
        e2 == pl.eps + pl.battery
        e3 == pl.eps + pl.battery + pl.vutrx
        e4 == pl.eps + pl.battery + pl.vutrx + pl.ants
    IN  CASE msgtype = 1 ->
               [msgtype |-> 1, messagenum |-> 1, messagetotal |-> 2,
                parts |-> <<[name |-> "cdh", a |-> 0, b |-> pl.cdh]>>]
          [] msgtype = 2 ->
               [msgtype |-> 2, messagenum |-> 1, messagetotal |-> 2,
                parts |-> <<[name |-> "cdh", a |-> 0, b |-> pl.cdh],
                            [name |-> "adac", a |-> pl.cdh, b |-> length]>>]
          [] msgtype = 3 ->
               [msgtype |-> 3, messagenum |-> 2, messagetotal |-> 2,
                parts |-> <<[name |-> "eps", a |-> 0, b |-> e1],
                            [name |-> "battery", a |-> e1, b |-> e2],
                            [name |-> "vutrx", a |-> e2, b |-> e3],
                            [name |-> "ants", a |-> e3, b |-> length]>>]
          [] msgtype = 4 ->
               [msgtype |-> 4, messagenum |-> 2, messagetotal |-> 2,
                parts |-> <<[name |-> "eps", a |-> 0, b |-> e1],
                            [name |-> "battery", a |-> e1, b |-> e2],
                            [name |-> "vutrx", a |-> e2, b |-> e3],
                            [name |-> "ants", a |-> e3, b |-> e4],
                            [name |-> "stx", a |-> e4, b |-> length]>>]
          [] OTHER ->
               [msgtype |-> -1, messagenum |-> 0, messagetotal |-> 0, parts |-> <<>>]

\* the state of a branch after the schema call of part p returned r
Ran(acc, p, r) ==
    [exc   |-> r.exc,
     dicts |-> Append(acc.dicts, r.ordict),
     calls |-> Append(acc.calls,
                  [name |-> p.name, a |-> p.a, b |-> p.b,
                   left |-> Len(r.data), exc |-> r.exc])]

\* the schema call of part p; the first exception ends the branch
RunPart(tokens, acc, p) ==
    IF acc.exc # "" THEN acc
    ELSE Ran(acc, p, schema(p.name, Slice(tokens, p.a, p.b)))

\* the schema calls of a branch, in order: [exc, dicts, calls]
RunParts(tokens, parts) ==
    Fold(LAMBDA acc, j : RunPart(tokens, acc, parts[j]), 1, Len(parts),
         [exc |-> "", dicts |-> <<>>, calls |-> <<>>])

\* the updates applied from the last schema back to the first
RECURSIVE UpdateAll_reversed(_, _)
UpdateAll_reversed(od, dicts) ==
    IF dicts = <<>> THEN od
    ELSE UpdateAll_reversed(update(od, dicts[Len(dicts)]), SubSeq(dicts, 1, Len(dicts) - 1))

\* compileddata.update(d) for the d of dicts, in order
RECURSIVE UpdateAll(_, _)
UpdateAll(od, dicts) ==
    IF dicts = <<>> THEN od ELSE UpdateAll(update(od, Head(dicts)), Tail(dicts))

\* the time written as the key of the first entry
header_keyed(clock, msgtype, messagenum, messagetotal) ==
    <<<<clock, "timestamp">>, <<"msgtype", msgtype>>,
      <<"messagenum", messagenum>>, <<"messagetotal", messagetotal>>>>

\* the four entries every record starts with
header(clock, msgtype, messagenum, messagetotal) ==
    <<<<"timestamp", clock>>, <<"msgtype", msgtype>>,
      <<"messagenum", messagenum>>, <<"messagetotal", messagetotal>>>>

\* acknowledgement with the two trailing bytes taken the other way round
acknowledgement_swapped(tokens, clock) ==
    header(clock, 0, 1, 1) \o
    <<<<"message", greeting>>,
      <<"lastcommand", tokens[Len(tokens)]>>,
      <<"awknowledgement", tokens[Len(tokens) - 1]>>>>

\* the record of the acknowledgement branch
acknowledgement(tokens, clock) ==
    header(clock, 0, 1, 1) \o
    <<<<"message", greeting>>,
      <<"lastcommand", tokens[Len(tokens) - 1]>>,
      <<"awknowledgement", tokens[Len(tokens)]>>>>

\* what error leaves behind: if self._errmsg != '' the record is replaced by
\* an empty one
finish(r) ==
    IF r.errmsg # "" THEN [r EXCEPT !.compileddata = <<>>] ELSE r

\* self.compileddata and self._errmsg as _parse starts, with the token list
base(tokens) ==
    [hexstr_cleaned |-> tokens, errmsg |-> "", compileddata |-> <<>>,
     exc |-> "", calls |-> <<>>]

\* a telemetry branch after its schema calls
compiled(tokens, clock, lay, run) ==
    IF run.exc # "" THEN [base(tokens) EXCEPT !.exc = run.exc, !.calls = run.calls]
    ELSE finish([base(tokens) EXCEPT !.calls = run.calls, !.compileddata =
             UpdateAll(header(clock, lay.msgtype, lay.messagenum, lay.messagetotal),
                       run.dicts)])

\* the branches by length
bylength(tokens, clock, lay) ==
    IF lay.msgtype # -1 THEN compiled(tokens, clock, lay, RunParts(tokens, lay.parts))
    ELSE finish([base(tokens) EXCEPT !.errmsg = lengthmsg])

\* the length table tested before the acknowledgement
cleaned_lengthfirst(c, clock) ==
    IF Len(c.tokens) = 0 THEN finish([base(c.tokens) EXCEPT !.errmsg = c.errmsg])
    ELSE IF msgtypeof(Len(c.tokens)) # -1
    THEN bylength(c.tokens, clock, layout(msgtypeof(Len(c.tokens)), Len(c.tokens)))
    ELSE IF Contains(Join(c.tokens), marker)
    THEN finish([base(c.tokens) EXCEPT !.compileddata = acknowledgement(c.tokens, clock)])
    ELSE bylength(c.tokens, clock, layout(-1, Len(c.tokens)))

\* _parse after _cleaninput returned c
cleaned(c, clock) ==
    IF Len(c.tokens) = 0 THEN finish([base(c.tokens) EXCEPT !.errmsg = c.errmsg])
    ELSE IF Contains(Join(c.tokens), marker)
    THEN finish([base(c.tokens) EXCEPT !.compileddata = acknowledgement(c.tokens, clock)])
    ELSE bylength(c.tokens, clock, layout(msgtypeof(Len(c.tokens)), Len(c.tokens)))

\* _parse(hexstr, dlim) on a new object, clock what datetime.now() reads:
\* [hexstr_cleaned, errmsg, compileddata, exc, calls]
_parse(h, d, clock) == cleaned(_cleaninput(h, d), clock)

(***************************************************************************)
(* Calls of ParseDownlink.parse                                             *)
(***************************************************************************)

\* the longest of the short input strings
MaxLen == 3

\* the largest step between the bytes of a generated frame
MaxStep == 1

\* the characters of the short input strings: digits, a capital digit, a
\* letter that is no digit, delimiters and a blank
Alphabet == {"0", "a", "F", "g", ",", "Z", " ", ":"}

\* the delimiters passed: none, one character, a capital, one holding a
\* blank, one of two characters, and a hexadecimal digit
Delims == {<<>>, <<",">>, <<"Z">>, <<",", " ">>, <<":", ":">>, <<"a">>}

ShortStrings == SeqsUpTo(Alphabet, MaxLen)

\* the token of a byte
ByteTok(b) == tok(HexDigits[(b \div 16) + 1], HexDigits[(b % 16) + 1])

\* a frame of n bytes: first, first + step, ... modulo 256
FrameTokens(n, first, step) == [i \in 1..n |-> ByteTok((first + (i - 1) * step) % 256)]

FrameLens == {1, 111, 112, 162, 163, 185, 249, 250}

FrameFirsts == {0, 255}

Frames == {FrameTokens(n, f, st) : n \in FrameLens, f \in FrameFirsts, st \in 0..MaxStep}

\* frames that hold the acknowledgement: alone, with bytes before and after
\* it, filled up to the length of a telemetry frame, cut short by one byte
AckFrames ==
    { pre \o [i \in 1..44 |-> SubSeq(marker, 2 * i - 1, 2 * i)] \o post :
        pre  \in {<<>>, <<tok("0", "7")>>},
        post \in {<<>>, <<tok("0", "c")>>, <<tok("1", "b"), tok("0", "6")>>,
                  FrameTokens(68, 1, 1), FrameTokens(119, 0, 1)} }
    \cup {[i \in 1..43 |-> SubSeq(marker, 2 * i - 1, 2 * i)] \o FrameTokens(69, 2, 1)}

\* str.upper() on the digits a-f
upper(s) ==
    [i \in 1..Len(s) |->
        IF \E k \in 1..26 : LowerCase[k] = s[i]
        THEN UpperCase[CHOOSE k \in 1..26 : LowerCase[k] = s[i]]
        ELSE s[i]]

\* the tokens of a frame written one after the other, sep between them
JoinWith(l, sep) ==
    Fold(LAMBDA st, i : IF i = 1 THEN l[i] ELSE st \o sep \o l[i], 1, Len(l), <<>>)

\* the calls made with a frame: as it is, in capitals, between blanks and
\* line ends, with the delimiter between its bytes, with half a byte more
\* or shifted by half a byte, and with a byte that holds a letter of the
\* delimiter
FrameCalls(f) ==
    { <<Join(f), <<>>>>,
      <<upper(Join(f)), <<>>>>,
      <<<<" ">> \o JoinWith(f, <<" ">>) \o <<"\r", "\n">>, <<>>>>,
      <<JoinWith(f, <<",">>), <<",">>>>,
      <<JoinWith(f, <<",", " ">>), <<",", " ">>>>,
      <<JoinWith(f, <<"Z">>), <<"Z">>>>,
      <<Join(f) \o <<"c">>, <<>>>>,
      <<<<"0">> \o Join(f) \o <<"0">>, <<>>>>,
      <<Join(f) \o <<"Z", "0">>, <<"Z">>>> }

Calls ==
    (ShortStrings \X Delims) \cup UNION {FrameCalls(f) : f \in Frames \cup AckFrames}

\* the readings of the clock, as strftime writes them
Clock == {"2020-01-01_00-00-00", "2020-01-01_00-00-01"}

\* ParseDownlink(hexstr, dlim) as __init__ starts: the arguments are given,
\* self._errmsg is '' and self.compileddata is an empty OrderedDict
Init ==
    /\ \E c \in Calls : hexstr = c[1] /\ dlim = c[2]
    /\ now \in Clock
    /\ hexstr_cleaned = <<>> /\ errmsg = ""
    /\ compileddata = <<>> /\ exc = "" /\ calls = <<>> /\ called = FALSE
    /\ data = <<>> /\ data0 = <<>> /\ dtype = "" /\ numbytes = 1
    /\ ret = [exc |-> "", val |-> "None"]
    /\ NoCallers
    /\ NoFloatCall
    /\ NoField
    /\ NoFrames
    /\ NoLog

\* ParseDownlink.parse(hexstr, dlim): a new object, whose __init__ runs
\* _parse once, and its record returned unless an exception escapes
parse ==
    /\ ~called
    /\ \E r \in {_parse(hexstr, dlim, now)} :
           /\ hexstr_cleaned' = r.hexstr_cleaned
           /\ errmsg' = r.errmsg
           /\ compileddata' = r.compileddata
           /\ exc' = r.exc
           /\ calls' = r.calls
           /\ called' = TRUE
           /\ UNCHANGED <<hexstr, dlim, now>>
           /\ UNCHANGED cursorvars
           /\ UNCHANGED callvars
           /\ UNCHANGED floatvars
           /\ UNCHANGED fieldvars
           /\ UNCHANGED imagevars
           /\ UNCHANGED logvars

Next == parse

Spec == Init /\ [][Next]_vars

(***************************************************************************)
(* The byte cursor on its own: calls of _parsebinary on one list           *)
(***************************************************************************)

\* the longest run of arbitrary tokens at the front of an initial list
MaxHead == 3

\* the largest numbytes argument passed
MaxNumBytes == 4

\* the tokens an initial list is drawn from
TokenSet == {tok("0", "0"), tok("0", "1"), tok("8", "0"), tok("f", "7")}

\* what follows the arbitrary tokens: nothing, enough well-formed tokens for
\* the widest read, the odd last token of a cleaned string of odd length,
\* or a token holding what is left of a delimiter
CursorTails ==
    { <<>>,
      <<tok("7", "f"), tok("f", "f"), tok("0", "0"), tok("8", "0"),
        tok("3", "f"), tok("1", "0"), tok("0", "a"), tok("c", "0")>>,
      <<tok("a", "5"), <<"c">>>>,
      <<tok("0", "z"), tok("1", "2")>> }

Cursors == {h \o t : h \in SeqsUpTo(TokenSet, MaxHead), t \in CursorTails}

\* the type tags passed: the fourteen of the code, four spelled with
\* capitals, and one the code does not know
TagsPassed == DTypes \cup {"UINT8", "Int16", "BOOL", "Single", "float"}

\* the arguments of a call: numbytes is passed with the tags that read it,
\* and is the default 1 otherwise
Args ==
    {<<t, n>> \in TagsPassed \X (0..MaxNumBytes) :
        n = 1 \/ lowertag(t) \in {"uint", "int", "bool"}}

InitCursor ==
    /\ hexstr = <<>> /\ dlim = <<>> /\ hexstr_cleaned = <<>> /\ errmsg = ""
    /\ compileddata = <<>> /\ exc = "" /\ calls = <<>> /\ called = FALSE
    /\ now = ""
    /\ data \in Cursors
    /\ data0 = data
    /\ dtype = "" /\ numbytes = 1
    /\ ret = [exc |-> "", val |-> "None"]
    /\ NoCallers
    /\ NoFloatCall
    /\ NoField
    /\ NoFrames
    /\ NoLog

\* one call _parsebinary(data, t, n) on the list
parsebinary ==
    \E a \in Args :
        \E r \in {_parsebinary(data, a[1], a[2])} :
            /\ data0' = data
            /\ dtype' = a[1]
            /\ numbytes' = a[2]
            /\ data' = r.data
            /\ ret' = [exc |-> r.exc, val |-> r.val]
            /\ UNCHANGED parsevars
            /\ UNCHANGED callvars
            /\ UNCHANGED floatvars
            /\ UNCHANGED fieldvars
            /\ UNCHANGED imagevars
            /\ UNCHANGED logvars

NextCursor == parsebinary

SpecCursor == InitCursor /\ [][NextCursor]_vars

(***************************************************************************)
(* Several callers of ParseDownlink.parse, their calls interleaved          *)
(***************************************************************************)

\* the number of callers
MaxCalls == 2

Callers == 1..MaxCalls

\* what the callers pass: an empty string, a frame of 112 bytes between
\* commas, a frame of 185 bytes whose decode raises, and an acknowledgement
CallInputs ==
    { <<<<>>, <<>>>>,
      <<JoinWith(FrameTokens(112, 0, 1), <<",">>), <<",">>>>,
      <<Join(FrameTokens(185, 0, 1)), <<>>>>,
      <<Join([i \in 1..44 |-> SubSeq(marker, 2 * i - 1, 2 * i)]) \o <<"1", "b", "0", "6">>,
        <<>>>> }

\* each caller holds its string and delimiter; no object is made yet
InitCalls ==
    /\ hexstr = <<>> /\ dlim = <<>> /\ hexstr_cleaned = <<>> /\ errmsg = ""
    /\ compileddata = <<>> /\ exc = "" /\ calls = <<>> /\ called = FALSE
    /\ now = ""
    /\ data = <<>> /\ data0 = <<>> /\ dtype = "" /\ numbytes = 1
    /\ ret = [exc |-> "", val |-> "None"]
    /\ frames \in [Callers -> CallInputs]
    /\ objs = [p \in Callers |-> [errmsg |-> "", compileddata |-> <<>>]]
    /\ pcs = [p \in Callers |-> "call"]
    /\ results = [p \in Callers |->
                    [clock |-> "", hexstr_cleaned |-> <<>>, errmsg |-> "",
                     compileddata |-> <<>>, exc |-> ""]]
    /\ NoFloatCall
    /\ NoField
    /\ NoFrames
    /\ NoLog

\* every call has the one object it made
object_shared(p) == 1

\* obj = cls(hexstr, dlim): the object of call p is a new one
object(p) == p

\* _parse run on an object whose fields are o, r being what _parse gives on
\* a new object: _errmsg and compileddata are assigned in the branches only,
\* and the closing test reads self._errmsg
on_object(o, r) ==
    IF r.exc # "" THEN [r EXCEPT !.errmsg = o.errmsg, !.compileddata = o.compileddata]
    ELSE IF r.errmsg # "" \/ o.errmsg = "" THEN r
    ELSE [r EXCEPT !.errmsg = o.errmsg, !.compileddata = <<>>]

\* __init__ of the object of call p, up to the call of _parse
construct(p) ==
    /\ pcs[p] = "call"
    /\ objs' = [objs EXCEPT ![object(p)] = [errmsg |-> "", compileddata |-> <<>>]]
    /\ pcs' = [pcs EXCEPT ![p] = "init"]
    /\ UNCHANGED <<frames, results>>
    /\ UNCHANGED parsevars
    /\ UNCHANGED cursorvars
    /\ UNCHANGED floatvars
    /\ UNCHANGED fieldvars
    /\ UNCHANGED imagevars
    /\ UNCHANGED logvars

\* self._parse(hexstr, dlim) of call p and the return of obj.compileddata,
\* the clock read while it runs
run(p) ==
    /\ pcs[p] = "init"
    /\ \E c \in Clock :
         \E r \in {on_object(objs[object(p)], _parse(frames[p][1], frames[p][2], c))} :
           /\ objs' = [objs EXCEPT ![object(p)] =
                          [errmsg |-> r.errmsg, compileddata |-> r.compileddata]]
           /\ results' = [results EXCEPT ![p] =
                             [clock |-> c, hexstr_cleaned |-> r.hexstr_cleaned,
                              errmsg |-> r.errmsg, compileddata |-> r.compileddata,
                              exc |-> r.exc]]
    /\ pcs' = [pcs EXCEPT ![p] = "done"]
    /\ UNCHANGED frames
    /\ UNCHANGED parsevars
    /\ UNCHANGED cursorvars
    /\ UNCHANGED floatvars
    /\ UNCHANGED fieldvars
    /\ UNCHANGED imagevars
    /\ UNCHANGED logvars

NextCalls == \E p \in Callers : construct(p) \/ run(p)

SpecCalls == InitCalls /\ [][NextCalls]_vars

(***************************************************************************)
(* Calls of hextofloat and hextodouble                                      *)
(***************************************************************************)

\* the first three digits of a word: sign and exponent bits
TopDigits ==
    { <<"0", "0", "0">>, <<"0", "0", "1">>, <<"3", "f", "8">>, <<"3", "f", "f">>,
      <<"4", "0", "0">>, <<"7", "f", "0">>, <<"7", "f", "8">>, <<"7", "f", "e">>,
      <<"7", "f", "f">>, <<"8", "0", "0">>, <<"b", "f", "8">>, <<"f", "f", "f">> }

\* the digits that follow them: n digits all 0, all f, the first 8, the
\* last 1, the last 3
LowDigits(n) ==
    { [i \in 1..n |-> "0"], [i \in 1..n |-> "f"],
      [i \in 1..n |-> IF i = 1 THEN "8" ELSE "0"],
      [i \in 1..n |-> IF i = n THEN "1" ELSE "0"],
      [i \in 1..n |-> IF i = n THEN "3" ELSE "0"] }

\* words of 32 and of 64 bits
Words32 == {t \o l : t \in TopDigits, l \in LowDigits(5)}

Words64 == {t \o l : t \in TopDigits, l \in LowDigits(13)}

\* str arguments that are no plain word: empty, the prefix alone, short,
\* in capitals, with a character that is no digit
OddStrings ==
    { <<>>, <<"0", "x">>, <<"3", "f", "8">>, <<"3", "F", "8", "0", "0", "0", "0", "0">>,
      <<"3", "f", "8", "0", "0", "0", "0", "g">>, <<"0", "X", "3", "f">>,
      <<" ", "3", "f", "8", "0", "0", "0", "0", "0">>,
      <<"-", "1">>, <<"0", "x", "z">>, <<"1", ".", "0">> }

\* the Python values passed as h
PyStr(s) == [type |-> "str", s |-> s]

FloatArgs(fn) ==
    LET words == IF fn = "hextofloat" THEN Words32 ELSE Words32 \cup Words64
    IN  {PyStr(w) : w \in words}
        \cup {PyStr(<<"0", "x">> \o w) : w \in words}
        \cup {PyStr(w) : w \in OddStrings}
        \cup {[type |-> t, s |-> <<>>] : t \in {"int", "NoneType", "bytes", "float"}}

FloatCalls ==
    {[fn |-> fn, a |-> a, swap |-> sw] :
        fn \in {"hextofloat"}, a \in FloatArgs("hextofloat"), sw \in BOOLEAN}
    \cup
    {[fn |-> fn, a |-> a, swap |-> sw] :
        fn \in {"hextodouble"}, a \in FloatArgs("hextodouble"), sw \in BOOLEAN}

InitFloat ==
    /\ hexstr = <<>> /\ dlim = <<>> /\ hexstr_cleaned = <<>> /\ errmsg = ""
    /\ compileddata = <<>> /\ exc = "" /\ calls = <<>> /\ called = FALSE
    /\ now = ""
    /\ data = <<>> /\ data0 = <<>> /\ dtype = "" /\ numbytes = 1
    /\ ret = [exc |-> "", val |-> "None"]
    /\ NoCallers
    /\ NoFloatCall
    /\ NoField
    /\ NoFrames
    /\ NoLog

\* one call ParseDownlink.hextofloat(h, swap) or hextodouble(h, swap)
tofloat ==
    /\ fcall.fn = ""
    /\ \E c \in FloatCalls :
         \E r \in {hexcall(c.fn, c.a, c.swap)} :
           /\ fcall' = c
           /\ fret' = r
    /\ UNCHANGED parsevars
    /\ UNCHANGED cursorvars
    /\ UNCHANGED callvars
    /\ UNCHANGED fieldvars
    /\ UNCHANGED imagevars
    /\ UNCHANGED logvars

NextFloat == tofloat

SpecFloat == InitFloat /\ [][NextFloat]_vars

(***************************************************************************)
(* The arithmetic of the schema statements.  The decimal constants of a     *)
(* statement are taken exactly: a statement that computes scale * x +       *)
(* offset gives (a * x + b) / d for integers a, b, d in lowest terms, and    *)
(* its output is kept as the numerator a * x + b over the denominator d.     *)
(***************************************************************************)

\* the statements of the schema functions that scale one integer read
affine(xf) ==
    CASE xf = "((x * 3 / 4096) - 0.5) * 100" -> [a |-> 75, b |-> -51200, d |-> 1024]
      [] xf = "x" -> [a |-> 1, b |-> 0, d |-> 1]
      [] xf = "x * 0.0001" -> [a |-> 1, b |-> 0, d |-> 10000]
      [] xf = "x * 0.0009775" -> [a |-> 391, b |-> 0, d |-> 400000]
      [] xf = "x * 0.001" -> [a |-> 1, b |-> 0, d |-> 1000]
      [] xf = "x * 0.001327547" -> [a |-> 1327547, b |-> 0, d |-> 1000000000]
      [] xf = "x * 0.001328" -> [a |-> 83, b |-> 0, d |-> 62500]
      [] xf = "x * 0.00207" -> [a |-> 207, b |-> 0, d |-> 100000]
      [] xf = "x * 0.004311" -> [a |-> 4311, b |-> 0, d |-> 1000000]
      [] xf = "x * 0.005237" -> [a |-> 5237, b |-> 0, d |-> 1000000]
      [] xf = "x * 0.005865" -> [a |-> 1173, b |-> 0, d |-> 200000]
      [] xf = "x * 0.006239" -> [a |-> 6239, b |-> 0, d |-> 1000000]
      [] xf = "x * 0.008978" -> [a |-> 4489, b |-> 0, d |-> 500000]
      [] xf = "x * 0.008993" -> [a |-> 8993, b |-> 0, d |-> 1000000]
      [] xf = "x * 0.008993157" -> [a |-> 8993157, b |-> 0, d |-> 1000000000]
      [] xf = "x * 0.0099706" -> [a |-> 49853, b |-> 0, d |-> 5000000]
      [] xf = "x * 0.01" -> [a |-> 1, b |-> 0, d |-> 100]
      [] xf = "x * 0.01349" -> [a |-> 1349, b |-> 0, d |-> 100000]
      [] xf = "x * 0.0322581" -> [a |-> 322581, b |-> 0, d |-> 10000000]
      [] xf = "x * 0.1" -> [a |-> 1, b |-> 0, d |-> 10]
      [] xf = "x * 0.25" -> [a |-> 1, b |-> 0, d |-> 4]
      [] xf = "x * 0.372434 - 273.15" -> [a |-> 186217, b |-> -136575000, d |-> 500000]
      [] xf = "x * 0.3976 - 238.57" -> [a |-> 994, b |-> -596425, d |-> 2500]
      [] xf = "x * 0.48828125" -> [a |-> 125, b |-> 0, d |-> 256]
      [] xf = "x * 0.4963 - 273.15" -> [a |-> 4963, b |-> -2731500, d |-> 10000]
      [] xf = "x * 0.5 + 2400" -> [a |-> 1, b |-> 4800, d |-> 2]
      [] xf = "x * 1" -> [a |-> 1, b |-> 0, d |-> 1]
      [] xf = "x * 10" -> [a |-> 10, b |-> 0, d |-> 1]
      [] xf = "x * 14.662757" -> [a |-> 14662757, b |-> 0, d |-> 1000000]
      [] xf = "x * 14.662757 / 1000" -> [a |-> 14662757, b |-> 0, d |-> 1000000000]
      [] xf = "x * 3 * 28 / 4096 / 18" -> [a |-> 7, b |-> 0, d |-> 6144]
      [] xf = "x * 3 / 4096" -> [a |-> 3, b |-> 0, d |-> 4096]
      [] xf = "x * 3.3 / 1023" -> [a |-> 1, b |-> 0, d |-> 310]
      [] xf = "x * 3e-6" -> [a |-> 3, b |-> 0, d |-> 1000000]
      [] xf = "x * 40e-6" -> [a |-> 1, b |-> 0, d |-> 25000]
      [] xf = "x * 4e-3" -> [a |-> 1, b |-> 0, d |-> 250]
      [] xf = "x * 62e-6" -> [a |-> 31, b |-> 0, d |-> 500000]
      [] xf = "x / 100000000" -> [a |-> 1, b |-> 0, d |-> 100000000]

\* -n
NumNeg(n) == NumSub(NumOf(0), n)

\* x * k for a wide int x and 0 <= k < 2^24 (x below 2^24 in size when k > 1)
NumMul(x, k) ==
    LET l1  == x.lo \div 4096
        l0  == x.lo % 4096
        k1  == k \div 4096
        k0  == k % 4096
        mid == l1 * k0 + l0 * k1
        t   == (mid % 4096) * 4096 + l0 * k0
    IN  [hi |-> x.hi * k + l1 * k1 + mid \div 4096 + t \div Limb, lo |-> t % Limb]

\* bit i of n >= 0
NumBit(n, i) ==
    IF i < 24 THEN (n.lo \div 2 ^ i) % 2 ELSE (n.hi \div 2 ^ (i - 24)) % 2

\* one step of the long division of n by d, at bit i: st = [q, r]
DivStep(n, d, i, st) ==
    IF 2 * st.r + NumBit(n, i) >= d
    THEN [q |-> NumAdd(NumAdd(st.q, st.q), NumOf(1)), r |-> 2 * st.r + NumBit(n, i) - d]
    ELSE [q |-> NumAdd(st.q, st.q), r |-> 2 * st.r + NumBit(n, i)]

\* [q, r] of n / d for 0 <= n < 2^48 and 0 < d < 2^30
DivBits(n, d) ==
    Fold(LAMBDA st, j : DivStep(n, d, 48 - j, st), 1, 48, [q |-> NumOf(0), r |-> 0])

\* n // d and n % d as Python has them, n of either sign
Floored(pos, d) ==
    IF pos.r = 0 THEN [q |-> NumNeg(pos.q), r |-> 0]
    ELSE [q |-> NumSub(NumNeg(pos.q), NumOf(1)), r |-> d - pos.r]

NumDivMod(n, d) ==
    IF n.hi >= 0 THEN DivBits(n, d) ELSE Floored(DivBits(NumNeg(n), d), d)

\* the output with c = affine(xf), the division taken as that of integers
scaled_floor(c, raw) ==
    [num |-> NumDivMod(NumAdd(NumMul(raw, c.a), NumOf(c.b)), c.d).q, den |-> 1]

\* the output of a statement on the int raw, with c = affine(xf)
scaled(c, raw) == [num |-> NumAdd(NumMul(raw, c.a), NumOf(c.b)), den |-> c.d]

\* ordict[key] = _parsebinary(hexarray, dtype) scaled as the statement says
apply(xf, raw) == scaled(affine(xf), raw)

(***************************************************************************)
(* One schema statement by itself, run on two token lists                   *)
(***************************************************************************)

IntTags == {"uint8", "uint16", "uint32", "int8", "int16", "int32"}

\* the statements of a schema table that scale one integer read
IntStatements(fields) ==
    {fields[i] : i \in {j \in 1..Len(fields) :
                          /\ fields[j].op = "F"
                          /\ Len(fields[j].dtypes) = 1
                          /\ fields[j].dtypes[1] \in IntTags}}

IntFields ==
    IntStatements(cdh_fields) \cup IntStatements(adac_fields)
    \cup IntStatements(eps_fields) \cup IntStatements(battery_fields)
    \cup IntStatements(vutrx_fields) \cup IntStatements(ants_fields)
    \cup IntStatements(stx_fields)

\* the bytes the token lists are made of
RawBytes == {tok("0", "0"), tok("0", "1"), tok("8", "0"), tok("f", "f")}

\* token lists of w bytes: the first byte and the byte all others repeat
RawLists(w) == {[i \in 1..w |-> IF i = 1 THEN b1 ELSE b2] : b1 \in RawBytes, b2 \in RawBytes}

\* what a statement left in ordict
valueof(s, key) ==
    IF s.exc # "" THEN [exc |-> s.exc, raw |-> NumOf(0), out |-> [num |-> NumOf(0), den |-> 1]]
    ELSE [exc |-> "", raw |-> Get(s.ordict, key).raw,
          out |-> apply(Get(s.ordict, key).xf, Get(s.ordict, key).raw)]

\* the statement st run on the token list t
readstatement(st, t) == valueof(Step(st, [exc |-> "", ordict |-> <<>>, data |-> t]), st.key)

InitField ==
    /\ hexstr = <<>> /\ dlim = <<>> /\ hexstr_cleaned = <<>> /\ errmsg = ""
    /\ compileddata = <<>> /\ exc = "" /\ calls = <<>> /\ called = FALSE
    /\ now = ""
    /\ data = <<>> /\ data0 = <<>> /\ dtype = "" /\ numbytes = 1
    /\ ret = [exc |-> "", val |-> "None"]
    /\ NoCallers
    /\ NoFloatCall
    /\ NoField
    /\ NoFrames
    /\ NoLog

\* one statement of a schema function run on two token lists
readfield ==
    /\ field.op = ""
    /\ \E st \in IntFields :
         \E t1 \in RawLists(Width(st.dtypes[1], 1)),
            t2 \in RawLists(Width(st.dtypes[1], 1)) :
           /\ field' = st
           /\ rawpair' = <<t1, t2>>
           /\ decoded' = <<readstatement(st, t1), readstatement(st, t2)>>
    /\ UNCHANGED parsevars
    /\ UNCHANGED cursorvars
    /\ UNCHANGED callvars
    /\ UNCHANGED floatvars
    /\ UNCHANGED imagevars
    /\ UNCHANGED logvars

\* the statements of a schema table that split a register with getkbits8
RegStatements(fields) ==
    {fields[i] : i \in {j \in 1..Len(fields) : fields[j].op = "R"}}

\* one register statement of _vutrx or _stx run on a token list: the
\* register is read and getkbits8 splits it into the keys of the statement
readregister ==
    /\ field.op = ""
    /\ \E st \in RegStatements(vutrx_fields) \cup RegStatements(stx_fields) :
         \E t \in RawLists(Width(st.dtypes[1], 1)) :
           /\ field' = st
           /\ rawpair' = <<t>>
           /\ decoded' = <<Step(st, [exc |-> "", ordict |-> <<>>, data |-> t])>>
    /\ UNCHANGED parsevars
    /\ UNCHANGED cursorvars
    /\ UNCHANGED callvars
    /\ UNCHANGED floatvars
    /\ UNCHANGED imagevars
    /\ UNCHANGED logvars

NextField == readfield \/ readregister

SpecField == InitField /\ [][NextField]_vars

(***************************************************************************)
(* ImageReassembler.  A frame is [whole, total, index, payload]: whole      *)
(* tells whether it is as long as a header and a payload block, total and   *)
(* index are the two little-endian header counts as they are on the wire,   *)
(* Norm times the declared values, and payload is the block of PayloadWidth  *)
(* bytes.                                                                    *)
(***************************************************************************)

\* the most frames handed over
MaxPackets == 4

\* the normalization constant of the two header counts
Norm == 2

\* the bytes of a payload block
PayloadWidth == 2

\* the filler of one payload block
Filler == [i \in 1..PayloadWidth |-> tok("f", "f")]

\* the frames that are long enough
blocks(fs) == SelectSeq(fs, LAMBDA f : f.whole)

\* how many of the blocks declare the total t
votes(bs, t) == Len(SelectSeq(bs, LAMBDA f : f.total = t))

\* the statistical modes of the declared totals: the totals declared most
modes(bs) ==
    {bs[i].total : i \in {j \in 1..Len(bs) :
                            \A k \in 1..Len(bs) : votes(bs, bs[k].total) <= votes(bs, bs[j].total)}}

\* ceil(t / Norm)
slots(t) == (t + Norm - 1) \div Norm

\* the blocks that agree with the mode t and whose index, normalized, is an
\* integer of [0, total)
retained(bs, t) ==
    SelectSeq(bs, LAMBDA f : /\ f.total = t
                             /\ f.index % Norm = 0
                             /\ f.index >= 0
                             /\ f.index < t)

\* the retained blocks of index i, in input order
atindex(rs, i) == SelectSeq(rs, LAMBDA f : f.index = i * Norm)

\* the retained blocks sorted by index, blocks of one index in input order
sorted(rs, t) == Join([k \in 1..slots(t) |-> atindex(rs, k - 1)])

\* of the blocks of one index the last one survives
deduplicated_last(ss, t) ==
    [k \in 1..slots(t) |->
        IF atindex(ss, k - 1) = <<>> THEN <<>>
        ELSE <<atindex(ss, k - 1)[Len(atindex(ss, k - 1))]>>]

\* of the blocks of one index the first one survives: for each index of
\* [0, ceil(total)) the block that survives, or none
deduplicated(ss, t) ==
    [k \in 1..slots(t) |->
        IF atindex(ss, k - 1) = <<>> THEN <<>> ELSE <<Head(atindex(ss, k - 1))>>]

\* the payloads in index order, nothing where no block survives
concatenated_gapless(ds) ==
    Join([k \in 1..Len(ds) |-> IF ds[k] = <<>> THEN <<>> ELSE ds[k][1].payload])

\* the payloads in index order, the filler where no block survives
concatenated(ds) ==
    Join([k \in 1..Len(ds) |-> IF ds[k] = <<>> THEN Filler ELSE ds[k][1].payload])

\* the count of the indices that were filled
filled(ds) == Cardinality({k \in 1..Len(ds) : ds[k] = <<>>})

\* the reassembled image for the survivors ds: the stream is given to the
\* caller only if fewer indices are missing than are expected
reassembled(ds, t) ==
    [done    |-> TRUE,
     mode    |-> t,
     found   |-> filled(ds) < Len(ds),
     stream  |-> IF filled(ds) < Len(ds) THEN concatenated(ds) ELSE <<>>,
     missing |-> filled(ds)]

\* the reassembly of the frames fs when t is the mode of their totals
ImageReassembler(fs, t) ==
    reassembled(deduplicated(sorted(retained(blocks(fs), t), t), t), t)

\* the two payloads a frame may carry
PayloadA == <<tok("a", "1"), tok("a", "2")>>

PayloadB == <<tok("b", "1"), tok("b", "2")>>

\* the frames handed over: packets 0..3 of 4, a second packet 1 with another
\* payload, a packet of another total, one of a total that is no integer,
\* one whose index is no integer, one whose index is the total, one that is
\* too short
ImagePackets ==
    { [whole |-> TRUE, total |-> 4 * Norm, index |-> 0, payload |-> PayloadA],
      [whole |-> TRUE, total |-> 4 * Norm, index |-> Norm, payload |-> PayloadA],
      [whole |-> TRUE, total |-> 4 * Norm, index |-> 2 * Norm, payload |-> PayloadA],
      [whole |-> TRUE, total |-> 4 * Norm, index |-> 3 * Norm, payload |-> PayloadA],
      [whole |-> TRUE, total |-> 4 * Norm, index |-> Norm, payload |-> PayloadB],
      [whole |-> TRUE, total |-> 3 * Norm, index |-> 0, payload |-> PayloadB],
      [whole |-> TRUE, total |-> 4 * Norm - 1, index |-> 0, payload |-> PayloadB],
      [whole |-> TRUE, total |-> 4 * Norm, index |-> Norm + 1, payload |-> PayloadB],
      [whole |-> TRUE, total |-> 4 * Norm, index |-> 4 * Norm, payload |-> PayloadB],
      [whole |-> FALSE, total |-> 4 * Norm, index |-> 0, payload |-> <<>>] }

InitImage ==
    /\ hexstr = <<>> /\ dlim = <<>> /\ hexstr_cleaned = <<>> /\ errmsg = ""
    /\ compileddata = <<>> /\ exc = "" /\ calls = <<>> /\ called = FALSE
    /\ now = ""
    /\ data = <<>> /\ data0 = <<>> /\ dtype = "" /\ numbytes = 1
    /\ ret = [exc |-> "", val |-> "None"]
    /\ NoCallers
    /\ NoFloatCall
    /\ NoField
    /\ NoFrames
    /\ NoLog

\* one more frame is handed over
receive ==
    /\ ~image.done
    /\ Len(received) < MaxPackets
    /\ \E f \in ImagePackets : received' = Append(received, f)
    /\ UNCHANGED image
    /\ UNCHANGED parsevars
    /\ UNCHANGED cursorvars
    /\ UNCHANGED callvars
    /\ UNCHANGED floatvars
    /\ UNCHANGED fieldvars
    /\ UNCHANGED logvars

\* the frames handed over are reassembled; of several modes any may be taken
reassemble ==
    /\ ~image.done
    /\ blocks(received) # <<>>
    /\ \E t \in modes(blocks(received)) : image' = ImageReassembler(received, t)
    /\ UNCHANGED received
    /\ UNCHANGED parsevars
    /\ UNCHANGED cursorvars
    /\ UNCHANGED callvars
    /\ UNCHANGED floatvars
    /\ UNCHANGED fieldvars
    /\ UNCHANGED logvars

NextImage == receive \/ reassemble

SpecImage == InitImage /\ [][NextImage]_vars

(***************************************************************************)
(* parserecord and record: the log file.  A file is [exists, text], text   *)
(* the records written to it, each followed by its line end.  The folders  *)
(* record makes with os.makedirs are not modelled.                         *)
(***************************************************************************)

\* a file that does not exist
Absent == [exists |-> FALSE, text |-> <<>>]

\* a file with one record, written by an earlier call
Earlier ==
    [exists |-> TRUE,
     text |-> <<acknowledgement(<<tok("1", "b"), tok("0", "6")>>, "2019-12-31_23-59-59")>>]

\* the logpath arguments: a plain path, and one with the placeholder for
\* the time
LogPaths == {<<"ss2beacon.json">>, <<"ss2beacon_parsed_", "[$TIMESTAMP]", ".json">>}

\* logpath.replace('[$TIMESTAMP]', datetime.datetime.now().strftime(...))
resolved(lp, clock) ==
    [i \in 1..Len(lp) |-> IF lp[i] = "[$TIMESTAMP]" THEN clock ELSE lp[i]]

\* the readings of the clock from the reading c on
Later(c) == IF c = "2020-01-01_00-00-00" THEN Clock ELSE {c}

\* the paths a call can write to
LogFiles == {resolved(lp, c) : lp \in LogPaths, c \in Clock}

\* open(logpath, 'at'), json.dump(self.compileddata, lfile), lfile.write('\n')
appended(f, cd) == [exists |-> TRUE, text |-> Append(f.text, cd)]

\* obj.record(logpath), clock what datetime.now() reads in it
record(fs, lp, cd, clock) ==
    [fs EXCEPT ![resolved(lp, clock)] = appended(fs[resolved(lp, clock)], cd)]

\* the record written after every call that returns, error or not
logged_always(fs, lp, r, clock) ==
    IF r.exc = "" THEN record(fs, lp, r.compileddata, clock) ELSE fs

\* parserecord after the constructor: nothing when it raised, and
\* if obj._errmsg == '': obj.record(logpath)
logged(fs, lp, r, clock) ==
    IF r.exc = "" /\ r.errmsg = "" THEN record(fs, lp, r.compileddata, clock) ELSE fs

\* the calls made: every frame as it is, and the strings of one character
\* at most
RecordCalls ==
    {<<Join(f), <<>>>> : f \in Frames \cup AckFrames}
    \cup {<<h, <<>>>> : h \in SeqsUpTo(Alphabet, 1)}

InitRecord ==
    /\ \E c \in RecordCalls : hexstr = c[1] /\ dlim = c[2]
    /\ now \in Clock
    /\ hexstr_cleaned = <<>> /\ errmsg = ""
    /\ compileddata = <<>> /\ exc = "" /\ calls = <<>> /\ called = FALSE
    /\ data = <<>> /\ data0 = <<>> /\ dtype = "" /\ numbytes = 1
    /\ ret = [exc |-> "", val |-> "None"]
    /\ NoCallers
    /\ NoFloatCall
    /\ NoField
    /\ NoFrames
    /\ logpath \in LogPaths
    /\ files \in [LogFiles -> {Absent, Earlier}]

\* ParseDownlink.parserecord(hexstr, logpath, dlim)
parserecord ==
    /\ ~called
    /\ \E r \in {_parse(hexstr, dlim, now)} :
           /\ hexstr_cleaned' = r.hexstr_cleaned
           /\ errmsg' = r.errmsg
           /\ compileddata' = r.compileddata
           /\ exc' = r.exc
           /\ calls' = r.calls
           /\ called' = TRUE
           /\ \E c \in Later(now) : files' = logged(files, logpath, r, c)
           /\ UNCHANGED <<hexstr, dlim, now, logpath>>
           /\ UNCHANGED cursorvars
           /\ UNCHANGED callvars
           /\ UNCHANGED floatvars
           /\ UNCHANGED fieldvars
           /\ UNCHANGED imagevars

NextRecord == parserecord

SpecRecord == InitRecord /\ [][NextRecord]_vars

(***************************************************************************)
(* Properties                                                               *)
(***************************************************************************)

\* the keys a schema function writes, in the order of its statements
FieldKeys(fields) ==
    Fold(LAMBDA st, j :
            st \o (IF fields[j].op = "F" THEN <<fields[j].key>>
                   ELSE [i \in 1..Len(fields[j].outs) |-> fields[j].outs[i][1]]),
         1, Len(fields), <<>>)

HeaderKeys == <<"timestamp", "msgtype", "messagenum", "messagetotal">>

\* the keys of a complete record of a message type
RecordKeys(mt) ==
    CASE mt = 0 -> HeaderKeys \o <<"message", "lastcommand", "awknowledgement">>
      [] mt = 1 -> HeaderKeys \o FieldKeys(cdh_fields)
      [] mt = 2 -> HeaderKeys \o FieldKeys(cdh_fields) \o FieldKeys(adac_fields)
      [] mt = 3 -> HeaderKeys \o FieldKeys(eps_fields) \o FieldKeys(battery_fields)
                     \o FieldKeys(vutrx_fields) \o FieldKeys(ants_fields)
      [] mt = 4 -> HeaderKeys \o FieldKeys(eps_fields) \o FieldKeys(battery_fields)
                     \o FieldKeys(vutrx_fields) \o FieldKeys(ants_fields)
                     \o FieldKeys(stx_fields)
      [] OTHER -> <<>>

\* the call returned (no exception escaped it)
Returned == called /\ exc = ""

\* the hexadecimal text of the list holds the text of the acknowledgement,
\* which is what _parse tests
HoldsMarker == Contains(Join(hexstr_cleaned), marker)

\* the 44 bytes of the acknowledgement
MarkerBytes == [i \in 1..44 |-> SubSeq(marker, 2 * i - 1, 2 * i)]

\* the bytes of the list hold the 44 bytes of the acknowledgement, one
\* after the other
HoldsMarkerBytes ==
    \E i \in 1..(Len(hexstr_cleaned) - 43) :
        \A k \in 1..44 : hexstr_cleaned[i + k - 1] = MarkerBytes[k]

\* every token of the list is two hexadecimal digits
WellFormed(tokens) ==
    \A i \in 1..Len(tokens) :
        Len(tokens[i]) = 2 /\ \A k \in 1..Len(tokens[i]) : IsHexDigit(tokens[i][k])

\* C1: when parse ends with an error message the record has no key at all,
\* and a record is either empty or has exactly the keys of a complete
\* record of its message type.  (A call that ends in an exception returns
\* no record; the record of its object is empty as well.)
C1_ErrorGivesEmptyRecord ==
    called =>
        /\ errmsg # "" => compileddata = <<>>
        /\ exc # "" => compileddata = <<>>
        /\ compileddata # <<>> =>
              /\ errmsg = ""
              /\ Has(compileddata, "msgtype")
              /\ Keys(compileddata) = RecordKeys(Get(compileddata, "msgtype"))

\* a frame of 250 bytes, one more than the longest layout, ended in an
\* error and its record is empty
C1_Witness ==
    /\ Returned
    /\ Len(hexstr_cleaned) = 250
    /\ errmsg # ""
    /\ compileddata = <<>>

\* the schema functions a layout names, in order
LayoutSchemas(n) ==
    CASE n = 112 -> <<"cdh">>
      [] n = 249 -> <<"cdh", "adac">>
      [] n = 163 -> <<"eps", "battery", "vutrx", "ants">>
      [] n = 185 -> <<"eps", "battery", "vutrx", "ants", "stx">>

\* C2: a frame without the acknowledgement is decoded by its byte length
\* alone: 112 gives msgtype 1, message 1 of 2, schema cdh; 249 gives
\* msgtype 2, message 1 of 2, cdh then adac; 163 gives msgtype 3, message 2
\* of 2, eps, battery, vutrx, ants; 185 gives msgtype 4, message 2 of 2,
\* eps, battery, vutrx, ants, stx; each schema gets the bytes that follow
\* those of the schema before it.
C2_LayoutByLength ==
    LET n == Len(hexstr_cleaned)
    IN  (called /\ n \in {112, 249, 163, 185} /\ WellFormed(hexstr_cleaned)
           /\ ~HoldsMarkerBytes) =>
          /\ exc = ""
          /\ Has(compileddata, "msgtype")
          /\ Get(compileddata, "msgtype") =
                (CASE n = 112 -> 1 [] n = 249 -> 2 [] n = 163 -> 3 [] n = 185 -> 4)
          /\ Get(compileddata, "messagenum") = (IF n \in {112, 249} THEN 1 ELSE 2)
          /\ Get(compileddata, "messagetotal") = 2
          /\ [j \in 1..Len(calls) |-> calls[j].name] = LayoutSchemas(n)
          /\ calls[1].a = 0
          /\ calls[Len(calls)].b = n
          /\ \A j \in 2..Len(calls) : calls[j].a = calls[j - 1].b

\* C3: a non-empty frame whose length is none of 112, 249, 163, 185 and
\* that does not hold the acknowledgement gives an empty record and the
\* length diagnostic, which lists the valid lengths.
C3_UnknownLengthIsError ==
    (called /\ hexstr_cleaned # <<>> /\ Len(hexstr_cleaned) \notin {112, 249, 163, 185}
       /\ ~HoldsMarkerBytes) =>
          /\ exc = ""
          /\ compileddata = <<>>
          /\ errmsg = "\t\t\tLength of hex string must be equal to one of the following lengths: 112, 249, 163, 185"

\* the input is made of blanks and of occurrences of the delimiter only,
\* from its i-th character on
RECURSIVE BlanksAndDelims(_, _, _)
BlanksAndDelims(s, d, i) ==
    \/ i > Len(s)
    \/ s[i] \in Whitespace /\ BlanksAndDelims(s, d, i + 1)
    \/ d # <<>> /\ MatchAt(s, d, i) /\ BlanksAndDelims(s, d, i + Len(d))

\* C4: an input that is empty once cleaned (it is empty, or holds only
\* blanks and occurrences of the delimiter) gives an empty record and an
\* input-error diagnostic, and no schema is applied.
C4_EmptyInputIsError ==
    (called /\ BlanksAndDelims(hexstr, dlim, 1)) =>
          /\ exc = ""
          /\ compileddata = <<>>
          /\ errmsg \in {"\t\t\tString is empty", "\t\t\tInvalid character found in string"}
          /\ calls = <<>>

\* C5: a frame that holds the acknowledgement (its 44 bytes one after the
\* other, or their text anywhere as the code tests it) gives the record of
\* msgtype 0, message 1 of 1, the greeting, lastcommand the last byte but
\* one of the frame and awknowledgement its last byte.
C5_Acknowledgement ==
    (called /\ hexstr_cleaned # <<>> /\ (HoldsMarkerBytes \/ HoldsMarker)) =>
          /\ exc = ""
          /\ errmsg = ""
          /\ Keys(compileddata) = RecordKeys(0)
          /\ Keys(compileddata) = RecordKeys(0) =>
                /\ Get(compileddata, "timestamp") = now
                /\ Get(compileddata, "msgtype") = 0
                /\ Get(compileddata, "messagenum") = 1
                /\ Get(compileddata, "messagetotal") = 1
                /\ Get(compileddata, "message") = "Gator Nation Is Everywhere! From SwampSat II"
                /\ Get(compileddata, "lastcommand") = hexstr_cleaned[Len(hexstr_cleaned) - 1]
                /\ Get(compileddata, "awknowledgement") = hexstr_cleaned[Len(hexstr_cleaned)]

\* the acknowledgement followed by the bytes 1b 06 was decoded
C5_Witness ==
    /\ Returned
    /\ Len(hexstr_cleaned) = 46
    /\ HoldsMarkerBytes
    /\ Has(compileddata, "lastcommand")
    /\ Get(compileddata, "lastcommand") = tok("1", "b")
    /\ Get(compileddata, "awknowledgement") = tok("0", "6")

\* C6: an input that, once blanks and the delimiter are removed, holds a
\* character outside 0-9a-f is rejected by the normalizer: the token list is
\* empty and the diagnostic is the invalid-character one, whatever the
\* delimiter.
C6_RejectsNonHex ==
    LET c == hstr_cleaned(hexstr, dlim)
    IN  (called /\ \E i \in 1..Len(c) : ~IsHexDigit(c[i])) =>
          /\ hexstr_cleaned = <<>>
          /\ errmsg = "\t\t\tInvalid character found in string"
          /\ compileddata = <<>>

\* C7: every token the normalizer returns is two characters long, both
\* hexadecimal digits.
C7_TokensAreHexBytes == called => WellFormed(hexstr_cleaned)

\* the value of a token of one or two hexadecimal digits
TokVal(t) == IF Len(t) = 2 THEN 16 * HexVal(t[1]) + HexVal(t[2]) ELSE HexVal(t[1])

\* b * 256^i for a byte b
Times256(b, i) ==
    IF i >= 3 THEN [hi |-> b * 256 ^ (i - 3), lo |-> 0] ELSE [hi |-> 0, lo |-> b * 256 ^ i]

\* the sum over i in 0..n-1 of token[i] * 256^i
RECURSIVE LittleEndian(_, _)
LittleEndian(tokens, n) ==
    IF n = 0 THEN NumOf(0)
    ELSE NumAdd(LittleEndian(tokens, n - 1), Times256(TokVal(tokens[n]), n - 1))

\* the number of bytes a read of a tag is to take
BytesOf(t, n) ==
    CASE t \in {"uint8", "int8", "bool8"} -> 1
      [] t \in {"uint16", "int16", "bool16"} -> 2
      [] t \in {"uint32", "int32", "bool32", "single"} -> 4
      [] t = "double" -> 8
      [] t \in {"uint", "int", "bool"} -> n

\* the last call was a read of one of the tags ts
Called(ts) == lowertag(dtype) \in ts

\* the last call was a read of one of the tags ts that returned
Read(ts) == Called(ts) /\ ret.exc = ""

\* the list of the last call held n >= 1 tokens or more, the first n of
\* them bytes
HadBytes(n) == n >= 1 /\ Len(data0) >= n /\ WellFormed(SubSeq(data0, 1, n))

\* C8: an unsigned read of N bytes returns the little-endian value of the
\* first N tokens, the sum of token[i] * 256^i, for uint8, uint16, uint32
\* and uint with numbytes = N.
C8_UnsignedLittleEndian ==
    LET n == BytesOf(lowertag(dtype), numbytes)
    IN  Called({"uint8", "uint16", "uint32", "uint"}) =>
            /\ HadBytes(n) => ret.exc = ""
            /\ ret.exc = "" => ret.val = LittleEndian(data0, n)

\* a uint32 of 2^31 or more was read
C8_Witness ==
    /\ Read({"uint32"})
    /\ ret.val.hi >= 128
    /\ Len(data0) > 4

\* C9: a read that succeeds on a list of at least N tokens removes the first
\* N tokens and nothing else; the rest keeps its values and its order.
C9_ReadRemovesFirstN ==
    LET n == BytesOf(lowertag(dtype), numbytes)
    IN  Called(DTypes) =>
            /\ (HadBytes(n) /\ lowertag(dtype) # "double") => ret.exc = ""
            /\ (ret.exc = "" /\ Len(data0) >= n) =>
                  /\ Len(data) = Len(data0) - n
                  /\ \A i \in 1..Len(data) : data[i] = data0[n + i]

\* a double was read from a list of more than eight tokens
C9_Witness ==
    /\ Read({"double"})
    /\ Len(data0) > 8
    /\ Len(data) = Len(data0) - 8

\* C10: a signed read of N bytes returns the two's complement of the
\* little-endian value u: u below 2^(8N-1), u - 2^(8N) from 2^(8N-1) on, so
\* the result lies in -2^(8N-1) .. 2^(8N-1) - 1, for int8, int16, int32 and
\* int with numbytes = N.
C10_SignedTwosComplement ==
    LET n    == BytesOf(lowertag(dtype), numbytes)
        u    == LittleEndian(data0, n)
        half == Pow2(8 * n - 1)
    IN  Called({"int8", "int16", "int32", "int"}) =>
            /\ HadBytes(n) => ret.exc = ""
            /\ ret.exc = "" =>
                  /\ ret.val = (IF NumGeq(u, half) THEN NumSub(u, Pow2(8 * n)) ELSE u)
                  /\ NumGeq(ret.val, NumSub(NumOf(0), half))
                  /\ ~NumGeq(ret.val, half)

\* an int32 below zero was read
C10_Witness ==
    /\ Read({"int32"})
    /\ ret.val.hi < 0
    /\ Len(data0) >= 4

\* bit i of a number below 2^48
BitOf(u, i) ==
    IF i < 24 THEN (u.lo \div 2 ^ i) % 2 ELSE (u.hi \div 2 ^ (i - 24)) % 2

\* C11: a bit-array read of N bytes returns exactly 8N values, each 0 or 1,
\* least-significant bit first: element i is bit i of the little-endian
\* value of the N tokens, for bool with numbytes = N and for bool8, bool16
\* and bool32 called without numbytes.
C11_BitArrayLsbFirst ==
    LET n == BytesOf(lowertag(dtype), numbytes)
        u == LittleEndian(data0, n)
    IN  (Called({"bool8", "bool16", "bool32", "bool"}) /\ HadBytes(n)) =>
            /\ ret.exc = ""
            /\ Len(ret.val) = 8 * n
            /\ \A i \in 0..(8 * n - 1) : ret.val[i + 1] = BitOf(u, i)

\* C12: a read of N bytes from a list of fewer than N tokens raises an error
\* instead of returning a value, and the list is left as it was.
C12_ShortReadFails ==
    LET n == BytesOf(lowertag(dtype), numbytes)
    IN  (Called(DTypes) /\ n >= 1 /\ Len(data0) < n) =>
            /\ ret.exc # ""
            /\ data = data0

\* a uint32 was asked of a list of three tokens
C12_Witness ==
    /\ Called({"uint32"})
    /\ Len(data0) = 3
    /\ ret.exc = "IndexError"
    /\ data = data0

\* what each schema call of the decode returned for the bytes it was given
SchemaDicts ==
    [j \in 1..Len(calls) |->
        schema(calls[j].name, Slice(hexstr_cleaned, calls[j].a, calls[j].b)).ordict]

\* C13: the keys of a decoded telemetry record are in wire order: timestamp,
\* msgtype, messagenum, messagetotal, then the fields of each schema in
\* layout order, each in the order its bytes are read; no schema overwrites
\* or moves a key of an earlier one, so the record after the header is the
\* schemas' own mappings one after the other.
C13_KeysInWireOrder ==
    (Returned /\ compileddata # <<>> /\ Get(compileddata, "msgtype") \in 1..4) =>
        /\ Keys(compileddata) = RecordKeys(Get(compileddata, "msgtype"))
        /\ \A i, j \in 1..Len(compileddata) :
              compileddata[i][1] = compileddata[j][1] => i = j
        /\ SliceFrom(compileddata, 4) = Join(SchemaDicts)

\* a frame of 163 bytes was decoded by its four schemas
C13_Witness ==
    /\ Returned
    /\ Len(calls) = 4
    /\ Has(compileddata, "msgtype")
    /\ Get(compileddata, "msgtype") = 3
    /\ Len(compileddata) > 100

\* what a call gave its caller
Outcome(r) == [exc |-> r.exc, errmsg |-> r.errmsg, compileddata |-> r.compileddata]

\* the outcome of the call of p had it been the only call
Alone(p) == Outcome(_parse(frames[p][1], frames[p][2], results[p].clock))

\* two outcomes equal in all but the value of 'timestamp'
SameButTimestamp(a, b) ==
    /\ a.exc = b.exc
    /\ a.errmsg = b.errmsg
    /\ a.hexstr_cleaned = b.hexstr_cleaned
    /\ Keys(a.compileddata) = Keys(b.compileddata)
    /\ \A i \in 1..Len(a.compileddata) :
          a.compileddata[i][1] # "timestamp" =>
              a.compileddata[i][2] = b.compileddata[i][2]

\* C14: two decodes of the same string and delimiter return records equal
\* in every key and value except 'timestamp', and end in the same state
\* (the same token list, diagnostic and exception), whatever the clock reads.
C14_Deterministic ==
    \A p, q \in Callers :
        (pcs[p] = "done" /\ pcs[q] = "done" /\ frames[p] = frames[q]) =>
            SameButTimestamp(results[p], results[q])

\* the same frame was decoded twice, at two readings of the clock
C14_Witness ==
    /\ pcs[1] = "done" /\ pcs[2] = "done"
    /\ frames[1] = frames[2]
    /\ results[1].clock # results[2].clock
    /\ Has(results[1].compileddata, "cdh_currentmode")
    /\ Get(results[1].compileddata, "timestamp") # Get(results[2].compileddata, "timestamp")

\* C15: in any interleaving of decode calls each call gives what it would
\* give alone: no call reads what another wrote, and no call changes the
\* string or the delimiter of a caller.
C15_Independent ==
    /\ [](\A p \in Callers : pcs[p] = "done" => Outcome(results[p]) = Alone(p))
    /\ [][frames' = frames]_vars

\* a call that ended in a diagnostic and a call on another frame that
\* decoded are both done
C15_Witness ==
    /\ pcs[1] = "done" /\ pcs[2] = "done"
    /\ frames[1] # frames[2]
    /\ results[1].errmsg # ""
    /\ Has(results[2].compileddata, "cdh_currentmode")

\* the digits of a str argument, after the prefix 0x if it has one
DigitsOf(a) ==
    IF Len(a.s) >= 2 /\ a.s[1] = "0" /\ a.s[2] = "x" THEN SliceFrom(a.s, 2) ELSE a.s

\* a word of n hexadecimal digits
IsWord(d, n) == Len(d) = n /\ \A i \in 1..n : IsHexDigit(d[i])

\* bit j of the word, bit 0 the least significant
WordBit(d, j) == (HexVal(d[Len(d) - (j \div 4)]) \div (2 ^ (j % 4))) % 2

\* bits lo .. lo+n-1 of the word as a number, n at most 28
RECURSIVE WordBits(_, _, _)
WordBits(d, lo, n) ==
    IF n = 0 THEN 0 ELSE WordBits(d, lo, n - 1) + WordBit(d, lo + n - 1) * 2 ^ (n - 1)

\* the same for up to 52 bits
WordField(d, lo, n) ==
    [hi |-> WordBits(d, lo + 24, Max(n - 24, 0)), lo |-> WordBits(d, lo, Min(n, 24))]

\* s1 * 2^e1 = s2 * 2^e2, for exponents one apart at most
SameValue(s1, e1, s2, e2) ==
    \/ e1 = e2 /\ s1 = s2
    \/ e1 = e2 + 1 /\ NumAdd(s1, s1) = s2
    \/ e2 = e1 + 1 /\ NumAdd(s2, s2) = s1

\* the call returned sign * 2^(exponent - bias) * (1 + mantissa / 2^mb) for
\* the sign bit, the eb exponent bits and the mb mantissa bits of the word
ReturnsFormula(d, mb, eb, bias) ==
    /\ fret.exc = ""
    /\ fret.val.sign = (IF WordBit(d, mb + eb) = 1 THEN -1 ELSE 1)
    /\ SameValue(fret.val.sig, fret.val.exp2,
                 NumAdd(Pow2(mb), WordField(d, 0, mb)), WordBits(d, mb, eb) - bias - mb)

\* C16: hextofloat returns sign * 2^(exponent - 127) * (1 + the sum of
\* mantissa bit i * 2^-(i+1)) for the sign bit 31, the 8 exponent bits below
\* it and the 23 mantissa bits of a 32-bit word; hextodouble the same with 11
\* exponent bits, bias 1023 and 52 mantissa bits of a 64-bit word; and
\* hextofloat("3f800000") is exactly 1.
C16_FloatFormula ==
    (fcall.a.type = "str" /\ ~fcall.swap) =>
        /\ (fcall.fn = "hextofloat" /\ IsWord(DigitsOf(fcall.a), 8)) =>
              ReturnsFormula(DigitsOf(fcall.a), 23, 8, 127)
        /\ (fcall.fn = "hextodouble" /\ IsWord(DigitsOf(fcall.a), 16)) =>
              ReturnsFormula(DigitsOf(fcall.a), 52, 11, 1023)
        /\ (fcall.fn = "hextofloat"
              /\ fcall.a.s = <<"3", "f", "8", "0", "0", "0", "0", "0">>) =>
              /\ fret.exc = ""
              /\ fret.val.sign = 1
              /\ SameValue(fret.val.sig, fret.val.exp2, Pow2(23), -23)

\* a hexadecimal digit in either case
IsHexChar(c) == IsHexDigit(c) \/ c \in {"A", "B", "C", "D", "E", "F"}

\* C17: hextofloat and hextodouble raise TypeError for an argument that is
\* no str, and ValueError for a str that holds, after the prefix 0x if it
\* has one, a character that is no hexadecimal digit; the error reaches the
\* caller and no number is returned in its place.
C17_RejectsBadArgument ==
    fcall.fn # "" =>
        /\ fcall.a.type # "str" => fret.exc = "TypeError"
        /\ (fcall.a.type = "str"
              /\ \E i \in 1..Len(DigitsOf(fcall.a)) : ~IsHexChar(DigitsOf(fcall.a)[i])) =>
              fret.exc = "ValueError"

\* a word whose last character is no digit was passed and ValueError raised
C17_Witness ==
    /\ fcall.fn = "hextofloat"
    /\ fcall.a = PyStr(<<"3", "f", "8", "0", "0", "0", "0", "g">>)
    /\ fret.exc = "ValueError"

\* the inverse of scale * x + offset on an output: (out * d - b) / a for the
\* a, b, d of the statement, [q, r] with r = 0 when it is an integer
Inverse(c, out) == NumDivMod(NumSub(out.num, NumOf(c.b)), c.a)

\* the raw value of a token list of w bytes read as the tag dt says
RawOf(dt, t) ==
    IF dt \in {"int8", "int16", "int32"} /\ NumGeq(LittleEndian(t, Len(t)), Pow2(8 * Len(t) - 1))
    THEN NumSub(LittleEndian(t, Len(t)), Pow2(8 * Len(t)))
    ELSE LittleEndian(t, Len(t))

Counted(i) ==
    /\ received[i].whole
    /\ received[i].total = image.mode
    /\ received[i].index % Norm = 0
    /\ received[i].index \div Norm \in 0..(image.mode \div Norm - 1)

\* the positions in the input of the counted frames of index k
Carriers(k) == {i \in 1..Len(received) : Counted(i) /\ received[i].index = k * Norm}

\* slot k of the stream
Slot(k) == SubSeq(image.stream, k * PayloadWidth + 1, (k + 1) * PayloadWidth)

C20_FirstPayloadWins ==
    (image.done /\ image.found /\ image.mode % Norm = 0) =>
        \A k \in 0..(image.mode \div Norm - 1) :
            Carriers(k) # {} =>
                Slot(k) = received[CHOOSE i \in Carriers(k) :
                                       \A j \in Carriers(k) : i <= j].payload

\* packet 1 came twice, with payload B first and payload A after it, and
\* slot 1 holds payload B
C20_Witness ==
    /\ image.done /\ image.found
    /\ image.mode = 4 * Norm
    /\ \E i, j \in 1..Len(received) :
          /\ i < j
          /\ Counted(i) /\ Counted(j)
          /\ received[i].index = Norm /\ received[j].index = Norm
          /\ received[i].payload = PayloadB /\ received[j].payload = PayloadA
    /\ Slot(1) = PayloadB

\* the exponent field of the word is one of the reserved patterns: all bits
\* 0 or all bits 1
Reserved(d, mb, eb) == WordBits(d, mb, eb) \in {0, 2 ^ eb - 1}

\* C21: a word whose exponent field is 0, or 255 (single) or 2047 (double),
\* is decoded by the formula of the other words,
\* sign * 2^(exponent - bias) * (1 + mantissa fraction): a value is returned
\* and it is that one, never an infinity or a NaN, and "00000000" gives 2^-127.
C21_ReservedExponents ==
    (fcall.a.type = "str" /\ ~fcall.swap) =>
        /\ (fcall.fn = "hextofloat" /\ IsWord(DigitsOf(fcall.a), 8)
              /\ Reserved(DigitsOf(fcall.a), 23, 8)) =>
              ReturnsFormula(DigitsOf(fcall.a), 23, 8, 127)
        /\ (fcall.fn = "hextodouble" /\ IsWord(DigitsOf(fcall.a), 16)
              /\ Reserved(DigitsOf(fcall.a), 52, 11)) =>
              ReturnsFormula(DigitsOf(fcall.a), 52, 11, 1023)
        /\ (fcall.fn = "hextofloat" /\ fcall.a.s = [i \in 1..8 |-> "0"]) =>
              /\ fret.exc = ""
              /\ fret.val.sign = 1
              /\ SameValue(fret.val.sig, fret.val.exp2, Pow2(23), -150)

\* C22: a frame of 112, 249, 163 or 185 well-formed bytes that does not
\* hold the acknowledgement is decoded whatever its bytes are: no exception
\* escapes the call, there is no error message, and the record returned is
\* the complete record of one of the message types 1 to 4.
C22_ValidLengthDecodes ==
    (called /\ Len(hexstr_cleaned) \in {112, 249, 163, 185}
       /\ WellFormed(hexstr_cleaned) /\ ~HoldsMarkerBytes /\ ~HoldsMarker) =>
          /\ exc = ""
          /\ errmsg = ""
          /\ compileddata # <<>>
          /\ Has(compileddata, "msgtype")
          /\ Get(compileddata, "msgtype") \in 1..4
          /\ Keys(compileddata) = RecordKeys(Get(compileddata, "msgtype"))

\* C23: every schema function is handed as many bytes as the dispatcher
\* reserves for it (cdh 112, adac 137, eps 116, battery 15, vutrx 28, ants 4,
\* stx 22) and, when it returns, has read them all, padding included: its
\* list is empty.
C23_SchemaConsumesSlice ==
    (called /\ Len(hexstr_cleaned) \in {112, 249, 163, 185}) =>
        \A j \in 1..Len(calls) :
            /\ calls[j].b - calls[j].a = packetlens[calls[j].name]
            /\ calls[j].exc = "" => calls[j].left = 0

\* the register a statement read from its token list: the little-endian
\* value of the bytes, in two's complement for the signed tags
Register(dt, t) ==
    IF dt \in {"int8", "int16"} /\ NumToInt(LittleEndian(t, Len(t))) >= 2 ^ (8 * Len(t) - 1)
    THEN NumToInt(LittleEndian(t, Len(t))) - 2 ^ (8 * Len(t))
    ELSE NumToInt(LittleEndian(t, Len(t)))

\* C24: every getkbits8(num, k, p) of the decoder returns the k bits of num
\* from bit p up, floor(num / 2^p) mod 2^k: k = 1 at p = 0 and p = 1 and
\* k = 4 at p = 0 and p = 4 on the uint8 registers of _vutrx, k = 12 at p = 4
\* on the int16 temperature words of _stx.
C24_KBitField ==
    field.op = "R" =>
        /\ decoded[1].exc = ""
        /\ \A i \in 1..Len(field.outs) :
              /\ Has(decoded[1].ordict, field.outs[i][1])
              /\ Get(decoded[1].ordict, field.outs[i][1]).raw =
                    (Register(field.dtypes[1], rawpair[1]) \div (2 ^ field.outs[i][3]))
                        % (2 ^ field.outs[i][2])

\* the record returned is that of an acknowledgement
IsAcknowledgement == Has(compileddata, "msgtype") /\ Get(compileddata, "msgtype") = 0

\* C25: a frame is an acknowledgement exactly when its bytes hold the 44
\* bytes of the marker one after the other; a frame that holds the digits of
\* the marker only from the second digit of a byte on is none.
C25_MarkerOnWholeBytes ==
    (called /\ exc = "") => (IsAcknowledgement <=> HoldsMarkerBytes)

\* C26: the acknowledgement is tested before the length table: a frame that
\* holds the marker gives the acknowledgement record, msgtype 0, whatever
\* its length; when the length is 112, 249, 163 or 185 no schema function is
\* called on its bytes, and when it is any other there is no length error.
C26_MarkerBeforeLength ==
    (called /\ HoldsMarkerBytes) =>
        /\ exc = ""
        /\ errmsg = ""
        /\ IsAcknowledgement
        /\ Keys(compileddata) = RecordKeys(0)
        /\ calls = <<>>

\* a frame of 112 bytes that holds the marker came back as an
\* acknowledgement, no schema function called
C26_Witness ==
    /\ called /\ exc = ""
    /\ HoldsMarkerBytes
    /\ Len(hexstr_cleaned) = 112
    /\ IsAcknowledgement
    /\ calls = <<>>

\* C27: parserecord appends to the log exactly when the call ends without
\* an error message, which is exactly when the record it returns is not
\* empty; a call that ends in an error or an exception creates and changes no
\* file; a write changes one file only and adds one record, the one
\* returned, after what the file held.
C27_LogOnlyOnSuccess ==
    [][(~called /\ called') =>
          /\ exc' # "" => files' = files
          /\ exc' = "" =>
                /\ (files' # files) <=> (errmsg' = "")
                /\ (errmsg' = "") <=> (compileddata' # <<>>)
          /\ \A p \in DOMAIN files :
                \/ files'[p] = files[p]
                \/ /\ files'[p].exists
                   /\ files'[p].text = Append(files[p].text, compileddata')
          /\ Cardinality({p \in DOMAIN files : files'[p] # files[p]}) <= 1]_vars

\* a decoded record was added to a file after the record the file held,
\* and another file is still as it was
C27_Witness ==
    /\ called /\ exc = "" /\ errmsg = ""
    /\ Has(compileddata, "cdh_currentmode")
    /\ files[<<"ss2beacon.json">>].text = <<Earlier.text[1], compileddata>>
    /\ \E p \in DOMAIN files : files[p] = Absent

====
